---------------------------- MODULE Spec2Model ----------------------------
(***************************************************************************)
(* ZenCode: the agent orchestration loop (core.py, ZenCore._run_agent),    *)
(* the tool layer it dispatches to (tools/file_manager.py), the diff       *)
(* staging subsystem (diff/engine.py, CLI.py), the conversation memory     *)
(* (core.py, Memory) and the build-plan parser (core.py,                   *)
(* parse_build_plan).                                                      *)
(*                                                                         *)
(* Texts (file contents, streamed fragments) are sequences of one-letter   *)
(* strings, so that appending, patching and joining are computed.          *)
(***************************************************************************)
EXTENDS Integers, Sequences, FiniteSets, TLC

VARIABLES
    \* ---- _run_agent: one orchestrator invocation
    pc,          \* position of the generator
    apiKey,      \* cfg "api_key" is set
    useTracker,  \* parameter use_diff_tracker
    tracker,     \* local `tracker`: 0 = None, else an index into trackers
    iter,        \* iterations of `for _iter in range(_MAX_ITERS)` started
    msgs,        \* the message list sent to the backend
    events,      \* the StreamChunks yielded so far
    resp,        \* `choice` of the current iteration
    idx,         \* position in choice.message.tool_calls
    curTc,       \* zen_tc of the call being handled
    allTcs,      \* all_tcs
    parts,       \* streamed fragments collected so far
    sq,          \* what the open stream will still deliver
    finalText,   \* final_text
    excText,     \* str(exc) of the exception being handled
    \* ---- tool layer and disk
    disk,        \* the workspace: node -> entry
    trackers,    \* every DiffTracker object created so far
    registered,  \* file_manager._diff_tracker: 0 = None, else an index
    \* ---- diff review
    rv,          \* state of one review of a diff set
    \* ---- Memory
    mem,         \* Memory._msgs, the configured limit, and the log of adds
    \* ---- parse_build_plan
    pp,          \* plan text and the parser's result
    \* ---- execute_build
    bd           \* one run of execute_build: the generator and what it touches

vars == <<pc, apiKey, useTracker, tracker, iter, msgs, events, resp, idx, curTc,
          allTcs, parts, sq, finalText, excText, disk, trackers, registered,
          rv, mem, pp, bd>>

runVars  == <<pc, apiKey, useTracker, tracker, iter, msgs, events, resp, idx,
              curTc, allTcs, parts, sq, finalText, excText>>
toolVars == <<disk, trackers, registered>>

-----------------------------------------------------------------------------
(* Bounds and program constants *)

\* the backend's first MaxVaried answers of an invocation are drawn from every
\* answer of Answers; the later ones from SteadyAnswers
MaxVaried == 1

_MAX_ITERS == 24

-----------------------------------------------------------------------------
(* Texts *)

RECURSIVE Join(_)
\* "".join(parts)
Join(ps) == IF ps = <<>> THEN <<>> ELSE Head(ps) \o Join(Tail(ps))

\* the first position at which `old` occurs in `content`, 0 when it does not
\* (`old_str not in content`)
FindFirst(content, old) ==
    LET hits == { i \in 1..(Len(content) - Len(old) + 1) :
                    SubSeq(content, i, i + Len(old) - 1) = old }
    IN  IF hits = {} THEN 0 ELSE CHOOSE i \in hits : \A j \in hits : i <= j

\* content.replace(old_str, new_str, 1), for old_str occurring in content
Replace1(content, old, new) ==
    LET i == FindFirst(content, old)
    IN  SubSeq(content, 1, i - 1) \o new \o SubSeq(content, i + Len(old), Len(content))

-----------------------------------------------------------------------------
(* The workspace on disk *)

Nodes == {"a.txt", "d", "d/b.txt"}

Absent  == [kind |-> "absent", content |-> <<>>]
Dir     == [kind |-> "dir",    content |-> <<>>]
File(c) == [kind |-> "file",   content |-> c]

\* the directory a node lives in; "" is the workspace root, which exists
Parent(p) == IF p = "d/b.txt" THEN "d" ELSE ""

Exists(dk, p) == dk[p].kind # "absent"
IsDir(dk, p)  == dk[p].kind = "dir"

\* an operation on the disk either returns the new disk or raises OSError
Ok(dk)   == [ok |-> TRUE,  disk |-> dk]
Fail(dk) == [ok |-> FALSE, disk |-> dk]

\* p.parent.mkdir(parents=True, exist_ok=True)
MkdirParents(dk, p) ==
    LET q == Parent(p)
    IN  IF q = "" \/ IsDir(dk, q) THEN Ok(dk)
        ELSE IF Exists(dk, q) THEN Fail(dk)
        ELSE Ok([dk EXCEPT ![q] = Dir])

\* p.write_text(content)
WriteText(dk, p, c) ==
    IF IsDir(dk, p) \/ (Parent(p) # "" /\ ~IsDir(dk, Parent(p))) THEN Fail(dk)
    ELSE Ok([dk EXCEPT ![p] = File(c)])

\* p.unlink()
Unlink(dk, p) ==
    IF dk[p].kind = "file" THEN Ok([dk EXCEPT ![p] = Absent]) ELSE Fail(dk)

\* shutil.rmtree(p)
Rmtree(dk, p) == Ok([n \in Nodes |-> IF n = p \/ Parent(n) = p THEN Absent ELSE dk[n]])

\* p.read_text(): the content of a file, "" where the read is not possible
ReadText(dk, p) == IF dk[p].kind = "file" THEN dk[p].content ELSE <<>>


-----------------------------------------------------------------------------
(* ToolResult, FileDiff, DiffTracker *)

\* ToolResult(success, output, error, metadata); staged is metadata["staged"]
ToolResult(success, output, error, staged) ==
    [success |-> success, output |-> output, error |-> error, staged |-> staged]

\* ToolResult.to_api_str: the JSON payload keeps success and the non-empty fields
ToApiStr(r) ==
    [success |-> r.success,
     output  |-> r.output,
     error   |-> r.error,
     metadata |-> IF r.staged THEN "staged" ELSE ""]

FileDiff(path, old, new, isNew, isDelete) ==
    [path |-> path, old_content |-> old, new_content |-> new,
     is_new |-> isNew, is_delete |-> isDelete]

\* DiffTracker.__init__: inactive, with an empty pending DiffSet
NewTracker == [active |-> FALSE, pending |-> <<>>]

\* DiffTracker.start
TrackerStart(t) == [active |-> TRUE, pending |-> <<>>]

\* DiffTracker.stop
TrackerStop(t) == [t EXCEPT !.active = FALSE]

\* `tracker and tracker.active` for the tracker registered in the tool layer
Intercepting(trs, reg) == reg # 0 /\ trs[reg].active

\* what a tool leaves behind: its result, the disk, the trackers; `raised` names
\* the exception that left it instead of a result ("" when it returned)
Outcome(r, dk, trs) == [result |-> r, disk |-> dk, trackers |-> trs, raised |-> ""]
Raising(exc, dk, trs) ==
    [result |-> ToolResult(FALSE, "", "", FALSE), disk |-> dk, trackers |-> trs,
     raised |-> exc]

\* an argument that is not a string: JSON null, decoded to None
Null == <<"null">>

\* a diff set that keeps one entry per path: a later write replaces the earlier
InterceptWrite_OnePerPath(dk, trs, reg, path, content, mode) ==
    LET old  == ReadText(dk, path)
        new  == IF mode = "append" THEN old \o content ELSE content
        diff == FileDiff(path, old, new, ~Exists(dk, path), FALSE)
        kept == SelectSeq(trs[reg].pending, LAMBDA d : d.path # path)
    IN  Outcome(ToolResult(TRUE, "staged", "", TRUE), dk,
                [trs EXCEPT ![reg].pending = Append(kept, diff)])

\* DiffTracker.intercept_write
InterceptWrite(dk, trs, reg, path, content, mode) ==
    LET old  == ReadText(dk, path)
        new  == IF mode = "append" THEN old \o content ELSE content
        diff == FileDiff(path, old, new, ~Exists(dk, path), FALSE)
    IN  IF content = Null /\ mode = "append"
        THEN Raising("TypeError", dk, trs)            \* old_content + content
        ELSE IF content = Null
        THEN Raising("AttributeError", dk,            \* content.splitlines()
                     [trs EXCEPT ![reg].pending = Append(@, diff)])
        ELSE Outcome(ToolResult(TRUE, "staged", "", TRUE), dk,
                     [trs EXCEPT ![reg].pending = Append(@, diff)])

-----------------------------------------------------------------------------
(* The tools (tools/file_manager.py) *)

\* file_read
FileRead(dk, trs, reg, path) ==
    IF ~Exists(dk, path) THEN Outcome(ToolResult(FALSE, "", "Not found", FALSE), dk, trs)
    ELSE IF IsDir(dk, path) THEN Outcome(ToolResult(FALSE, "", "OSError", FALSE), dk, trs)
    ELSE Outcome(ToolResult(TRUE, "content", "", FALSE), dk, trs)

\* file_write
FileWrite(dk, trs, reg, path, content, mode) ==
    IF Intercepting(trs, reg) THEN InterceptWrite(dk, trs, reg, path, content, mode)
    ELSE
        LET m == MkdirParents(dk, path)
            c == IF mode = "append" THEN ReadText(m.disk, path) \o content ELSE content
            w == WriteText(m.disk, path, c)
            touched == WriteText(m.disk, path, ReadText(m.disk, path))
        IN  IF ~m.ok THEN Outcome(ToolResult(FALSE, "", "OSError", FALSE), m.disk, trs)
            ELSE IF content = Null
            THEN Outcome(ToolResult(FALSE, "", "TypeError", FALSE),
                         IF mode = "append" /\ touched.ok THEN touched.disk ELSE m.disk,
                         trs)
            ELSE IF w.ok
            THEN Outcome(ToolResult(TRUE, "wrote", "", FALSE), w.disk, trs)
            ELSE Outcome(ToolResult(FALSE, "", "OSError", FALSE), m.disk, trs)

\* a patch that reports success and writes nothing
FilePatch_OnlyReports(dk, trs, reg, path, old, new) ==
    IF ~Exists(dk, path) THEN Outcome(ToolResult(FALSE, "", "Not found", FALSE), dk, trs)
    ELSE Outcome(ToolResult(TRUE, "patched", "", FALSE), dk, trs)

\* file_patch
FilePatch(dk, trs, reg, path, old, new) ==
    IF ~Exists(dk, path) THEN Outcome(ToolResult(FALSE, "", "Not found", FALSE), dk, trs)
    ELSE IF IsDir(dk, path) THEN Outcome(ToolResult(FALSE, "", "OSError", FALSE), dk, trs)
    ELSE IF FindFirst(ReadText(dk, path), old) = 0
    THEN Outcome(ToolResult(FALSE, "", "String not found", FALSE), dk, trs)
    ELSE
        LET new_content == Replace1(ReadText(dk, path), old, new)
        IN  IF Intercepting(trs, reg)
            THEN InterceptWrite(dk, trs, reg, path, new_content, "write")
            ELSE Outcome(ToolResult(TRUE, "patched", "", FALSE),
                         WriteText(dk, path, new_content).disk, trs)

\* file_delete
FileDelete(dk, trs, reg, path) ==
    IF ~Exists(dk, path) THEN Outcome(ToolResult(FALSE, "", "Not found", FALSE), dk, trs)
    ELSE IF IsDir(dk, path)
    THEN Outcome(ToolResult(TRUE, "Deleted directory", "", FALSE), Rmtree(dk, path).disk, trs)
    ELSE Outcome(ToolResult(TRUE, "Deleted", "", FALSE), Unlink(dk, path).disk, trs)

\* the operations of TOOL_CALLABLES the model's backend asks for
ToolNames == {"file_read", "file_write", "file_patch", "file_delete"}

\* a call as the backend writes it: a name and the arguments, which are either a
\* JSON object or text json.loads rejects
Call(name, args) == [name |-> name, args |-> args]
NoArgs == [bad |-> TRUE]

\* lines 256-260 of core.py: args = json.loads(raw), {} when it does not parse
ParseArgs(raw) == IF "bad" \in DOMAIN raw THEN [none |-> TRUE] ELSE raw

\* the parameters of a tool function without a default, and those with one
Required(name) ==
    CASE name = "file_read"   -> {"path"}
      [] name = "file_write"  -> {"path", "content"}
      [] name = "file_patch"  -> {"path", "old_str", "new_str"}
      [] name = "file_delete" -> {"path"}
Defaulted(name) ==
    CASE name = "file_read"   -> {"start_line", "end_line"}
      [] name = "file_write"  -> {"mode"}
      [] name = "file_patch"  -> {}
      [] name = "file_delete" -> {}

\* fn(**args) binds: no parameter is missing and none is unexpected
Binds(name, args) ==
    /\ Required(name) \subseteq DOMAIN args
    /\ DOMAIN args \subseteq Required(name) \cup Defaulted(name)

\* fn(**args) for a call that binds
CallTool(dk, trs, reg, name, args) ==
    CASE name = "file_read"   -> FileRead(dk, trs, reg, args.path)
      [] name = "file_write"  ->
            FileWrite(dk, trs, reg, args.path, args.content,
                      IF "mode" \in DOMAIN args THEN args.mode ELSE "write")
      [] name = "file_patch"  -> FilePatch(dk, trs, reg, args.path, args.old_str, args.new_str)
      [] name = "file_delete" -> FileDelete(dk, trs, reg, args.path)

\* dispatch(name, args): a TypeError of the call becomes a failed result, any
\* other exception leaves dispatch
Dispatch(dk, trs, reg, name, args) ==
    IF name \notin ToolNames
    THEN Outcome(ToolResult(FALSE, "", "Unknown tool", FALSE), dk, trs)
    ELSE IF ~Binds(name, args)
    THEN Outcome(ToolResult(FALSE, "", "Bad args", FALSE), dk, trs)
    ELSE LET o == CallTool(dk, trs, reg, name, args)
         IN  IF o.raised = "TypeError"
             THEN Outcome(ToolResult(FALSE, "", "Bad args", FALSE), o.disk, o.trackers)
             ELSE o

-----------------------------------------------------------------------------
(* The model backend, as the orchestrator sees it *)

W1 == Call("file_write",  [path |-> "a.txt",   content |-> <<"n">>, mode |-> "write"])
WA == Call("file_write",  [path |-> "a.txt",   content |-> <<"n">>, mode |-> "append"])
W2 == Call("file_write",  [path |-> "d/b.txt", content |-> <<"n">>, mode |-> "write"])
P1 == Call("file_patch",  [path |-> "a.txt",   old_str |-> <<"x">>, new_str |-> <<"y">>])
D1 == Call("file_delete", [path |-> "a.txt"])
R1 == Call("file_read",   [path |-> "a.txt"])
U1 == Call("no_such_tool", [path |-> "a.txt"])
B1 == Call("file_write",  NoArgs)

\* client.chat.complete returned a choice
Choice(finish, calls, content) ==
    [kind |-> "choice", finish_reason |-> finish, tool_calls |-> calls, content |-> content]

\* client.chat.complete raised, or the response has no choice to read
Raise(error) ==
    [kind |-> "raise", finish_reason |-> error, tool_calls |-> <<>>, content |-> <<>>]

ToolAnswers ==
    { Choice("tool_calls", cs, <<>>) :
        cs \in { <<W2>>, <<P1>>, <<D1>>, <<B1>>, <<U1, W1>>, <<R1, WA>>, <<W1, WA>> } }

FinalAnswers ==
    { Choice("stop", <<>>, <<>>), Choice("stop", <<>>, <<"h", "i">>),
      Choice("tool_calls", <<>>, <<"h", "i">>) }

Answers == ToolAnswers \cup FinalAnswers \cup { Raise("network"), Raise("malformed") }

SteadyAnswers ==
    { Choice("tool_calls", <<U1>>, <<>>), Choice("stop", <<>>, <<"h", "i">>), Raise("network") }

\* in a run of several invocations (the tasks of a build) the backend varies
\* its answers in one of them, the task numbered bd.varied
Varied == "varied" \in DOMAIN bd => bd.varied = bd.t

\* the answers to the other invocations of such a run: a final answer or a failure
QuietAnswers == { Choice("stop", <<>>, <<"h", "i">>), Raise("network") }

\* calls whose name or arguments do not fit a tool: an unknown name, arguments
\* that do not parse, a parameter missing, a parameter unknown, a null content
ProbeCalls ==
    { U1, B1,
      Call("file_write", [path |-> "a.txt"]),
      Call("file_write", [path |-> "a.txt", content |-> <<"n">>, force |-> "y"]),
      Call("file_write", [path |-> "a.txt", content |-> Null]),
      Call("file_write", [path |-> "a.txt", content |-> Null, mode |-> "append"]) }

\* answers that ask for such a call, alone or followed by a call that fits
ProbeAnswers ==
    { Choice("tool_calls", <<c>>, <<>>) : c \in ProbeCalls }
    \cup { Choice("tool_calls", <<c, R1>>, <<>>) : c \in ProbeCalls }

\* the backend is made to ask for calls that do not fit
Probing == bd.pc = "probe"

\* the answers the backend may give to the request of iteration i (1-based)
BackendAnswers(i) ==
    IF Probing THEN (IF i <= MaxVaried THEN ProbeAnswers ELSE SteadyAnswers)
    ELSE IF ~Varied THEN QuietAnswers
    ELSE IF i <= MaxVaried THEN Answers ELSE SteadyAnswers

\* client.chat.stream: the fragments it delivers, and whether it then breaks
Stream(deltas, fails) == [deltas |-> deltas, fails |-> fails]

Streams ==
    { Stream(<<<<"h">>, <<"i">>>>, FALSE), Stream(<<<<"h">>, <<>>, <<"i">>>>, FALSE),
      Stream(<<>>, FALSE), Stream(<<>>, TRUE), Stream(<<<<"h">>>>, TRUE) }

SteadyStreams == { Stream(<<<<"h">>, <<"i">>>>, FALSE), Stream(<<<<"h">>>>, TRUE) }

\* an answer that spells out a build plan: "BUILD PLAN: F\n[coder] C1: x"
PlanText ==
    <<"B", "U", "I", "L", "D", " ", "P", "L", "A", "N", ":", " ", "F", "\n",
      "[", "c", "o", "d", "e", "r", "]", " ", "C", "1", ":", " ", "x">>

\* in a chat turn the answer may also be a plan
Chatting == bd.pc = "turn"
ChatStreams == Streams \cup { Stream(<<PlanText>>, FALSE) }

\* the planning call of direct_build: the streamed plan may also break off
\* after the fragment that spells it
Planning == bd.pc = "planning"
PlanStreams == ChatStreams \cup { Stream(<<PlanText>>, TRUE) }

BackendStreams(i) ==
    IF i <= MaxVaried /\ Chatting THEN ChatStreams
    ELSE IF i <= MaxVaried /\ Planning THEN PlanStreams
    ELSE IF i <= MaxVaried /\ Varied THEN Streams ELSE SteadyStreams

-----------------------------------------------------------------------------
(* StreamChunk, ToolCall, messages *)

\* ToolCall(tool_id, name, arguments), result not yet attached
ToolCall(id, name, args) ==
    [tool_id |-> id, name |-> name, arguments |-> args,
     attached |-> FALSE, result |-> ToolResult(FALSE, "", "", FALSE)]

Attach(tc, r) == [tc EXCEPT !.attached = TRUE, !.result = r]

Chunk(type, tc, delta, response, diffs) ==
    [chunk_type |-> type, tool_call |-> tc, delta |-> delta,
     response |-> response, diff_set |-> diffs]

NoTc       == ToolCall(<<0, 0>>, "", NoArgs)
NoResponse == [text |-> <<>>, error |-> "", tool_calls |-> <<>>, diff_set |-> <<>>, ok |-> FALSE]

\* ZenResponse; error "" stands for None
ZenResponse(text, error, tcs, diffs) ==
    [text |-> text, error |-> error, tool_calls |-> tcs, diff_set |-> diffs,
     ok |-> error = ""]

ToolCallChunk(tc)   == Chunk("tool_call",   tc,   <<>>, NoResponse, <<>>)
ToolResultChunk(tc) == Chunk("tool_result", tc,   <<>>, NoResponse, <<>>)
DeltaChunk(d)       == Chunk("delta",       NoTc, d,    NoResponse, <<>>)
DiffReadyChunk(ds)  == Chunk("diff_ready",  NoTc, <<>>, NoResponse, ds)
DoneChunk(r)        == Chunk("done",        NoTc, <<>>, r,          <<>>)

Msg(role, calls, id, name, content) ==
    [role |-> role, tool_calls |-> calls, tool_call_id |-> id, name |-> name,
     content |-> content]

NoContent == ToApiStr(ToolResult(FALSE, "", "", FALSE))

\* agent.build_messages and the system message
InitialMsgs == << Msg("system", <<>>, <<0, 0>>, "", NoContent),
                  Msg("user",   <<>>, <<0, 0>>, "", NoContent) >>

\* the id the backend gives the k-th call of the answer to request i
CallId(i, k) == <<i, k>>

\* an off-by-one loop bound
LoopContinues_OffByOne(i) == i <= _MAX_ITERS

\* line 226: `for _iter in range(_MAX_ITERS)` has another iteration after i
LoopContinues(i) == i < _MAX_ITERS

\* line 243: the answer to request i asks for tools (every agent of AGENTS has
\* tool schemas)
IsToolTurn(a) == a.finish_reason = "tool_calls" /\ a.tool_calls # <<>>

\* lines 244-253: the assistant message recording the calls of answer a to
\* request i, in the order the backend listed them
AssistantMsg(a, i) ==
    Msg("assistant",
        [k \in 1..Len(a.tool_calls) |-> [id |-> CallId(i, k), name |-> a.tool_calls[k].name]],
        <<0, 0>>, "", NoContent)

\* every result filed under the id of the answer's first call
ToolMsg_StaleId(tc) ==
    Msg("tool", <<>>, CallId(tc.tool_id[1], 1), tc.name, ToApiStr(tc.result))

\* lines 277-282: the tool message of a call whose result is attached
ToolMsg(tc) == Msg("tool", <<>>, tc.tool_id, tc.name, ToApiStr(tc.result))

-----------------------------------------------------------------------------
(* ZenCore._run_agent *)

RunIdle ==
    /\ pc = "idle" /\ iter = 0 /\ msgs = <<>> /\ events = <<>>
    /\ resp = Raise("") /\ idx = 0 /\ curTc = NoTc /\ allTcs = <<>>
    /\ parts = <<>> /\ sq = Stream(<<>>, FALSE) /\ finalText = <<>> /\ excText = ""

\* lines 205-223: the client, the messages, the tracker
Begin ==
    /\ pc = "idle"
    /\ IF ~apiKey
       THEN /\ pc' = "raised"
            /\ UNCHANGED <<msgs, tracker, trackers, registered>>
       ELSE /\ pc' = "request"
            /\ msgs' = InitialMsgs
            /\ IF useTracker /\ tracker = 0
               THEN /\ trackers' = Append(trackers, TrackerStart(NewTracker))
                    /\ tracker' = Len(trackers) + 1
                    /\ registered' = Len(trackers) + 1
               ELSE IF useTracker
               THEN /\ registered' = tracker
                    /\ UNCHANGED <<tracker, trackers>>
               ELSE UNCHANGED <<tracker, trackers, registered>>
    /\ UNCHANGED <<apiKey, useTracker, iter, events, resp, idx, curTc, allTcs,
                   parts, sq, finalText, excText, disk, rv, mem, pp, bd>>

\* lines 226-253: the next iteration's request and the branch on its answer
Request ==
    /\ pc = "request"
    /\ LoopContinues(iter)
    /\ iter' = iter + 1
    /\ \E a \in BackendAnswers(iter + 1) :
         /\ resp' = a
         /\ IF a.kind = "raise"
            THEN /\ pc' = "except"
                 /\ excText' = a.finish_reason
                 /\ UNCHANGED <<msgs, idx>>
            ELSE IF IsToolTurn(a)
            THEN /\ pc' = "emit_call"
                 /\ idx' = 1
                 /\ msgs' = Append(msgs, AssistantMsg(a, iter + 1))
                 /\ UNCHANGED excText
            ELSE /\ pc' = "open_stream"
                 /\ UNCHANGED <<msgs, idx, excText>>
    /\ UNCHANGED <<apiKey, useTracker, tracker, events, curTc, allTcs, parts, sq,
                   finalText, toolVars, rv, mem, pp, bd>>

\* the used-up range reported as an error
LoopExhausted_ReportsError ==
    /\ pc = "request"
    /\ ~LoopContinues(iter)
    /\ pc' = "except"
    /\ excText' = "max iterations"
    /\ UNCHANGED <<apiKey, useTracker, tracker, iter, msgs, events, resp, idx, curTc,
                   allTcs, parts, sq, finalText, toolVars, rv, mem, pp, bd>>

\* line 226: range(_MAX_ITERS) is used up, the loop is left without a break
LoopExhausted ==
    /\ pc = "request"
    /\ ~LoopContinues(iter)
    /\ pc' = "collect"
    /\ UNCHANGED <<apiKey, useTracker, tracker, iter, msgs, events, resp, idx, curTc,
                   allTcs, parts, sq, finalText, excText, toolVars, rv, mem, pp, bd>>

\* lines 254-266: the 'tool invoked' chunk of the idx-th call
EmitToolCall ==
    /\ pc = "emit_call"
    /\ LET tc == resp.tool_calls[idx]
           zen_tc == ToolCall(CallId(iter, idx), tc.name, ParseArgs(tc.args))
       IN  /\ curTc' = zen_tc
           /\ events' = Append(events, ToolCallChunk(zen_tc))
    /\ pc' = "dispatch"
    /\ UNCHANGED <<apiKey, useTracker, tracker, iter, msgs, resp, idx, allTcs, parts,
                   sq, finalText, excText, toolVars, rv, mem, pp, bd>>

\* lines 267-276: dispatch, attach the result, the 'tool completed' chunk
DispatchTool ==
    /\ pc = "dispatch"
    /\ LET o == Dispatch(disk, trackers, registered, curTc.name, curTc.arguments)
           zen_tc == Attach(curTc, o.result)
       IN  /\ disk' = o.disk
           /\ trackers' = o.trackers
           /\ IF o.raised # ""
              THEN /\ pc' = "except"
                   /\ excText' = o.raised
                   /\ UNCHANGED <<curTc, allTcs, events>>
              ELSE /\ pc' = "attach"
                   /\ curTc' = zen_tc
                   /\ allTcs' = Append(allTcs, zen_tc)
                   /\ events' = Append(events, ToolResultChunk(zen_tc))
                   /\ UNCHANGED excText
    /\ UNCHANGED <<apiKey, useTracker, tracker, iter, msgs, resp, idx, parts, sq,
                   finalText, registered, rv, mem, pp, bd>>

\* a failed tool result treated as fatal
AttachToolMsg_FailureFatal ==
    /\ pc = "attach"
    /\ msgs' = Append(msgs, ToolMsg(curTc))
    /\ IF ~curTc.result.success
       THEN /\ idx' = idx
            /\ pc' = "except"
       ELSE IF idx < Len(resp.tool_calls)
       THEN /\ idx' = idx + 1
            /\ pc' = "emit_call"
       ELSE /\ idx' = idx
            /\ pc' = "request"
    /\ UNCHANGED <<apiKey, useTracker, tracker, iter, events, resp, curTc, allTcs,
                   parts, sq, finalText, excText, toolVars, rv, mem, pp, bd>>

\* lines 277-283: the tool message, then the next call or the next iteration
AttachToolMsg ==
    /\ pc = "attach"
    /\ msgs' = Append(msgs, ToolMsg(curTc))
    /\ IF idx < Len(resp.tool_calls)
       THEN /\ idx' = idx + 1
            /\ pc' = "emit_call"
       ELSE /\ idx' = idx
            /\ pc' = "request"
    /\ UNCHANGED <<apiKey, useTracker, tracker, iter, events, resp, curTc, allTcs,
                   parts, sq, finalText, excText, toolVars, rv, mem, pp, bd>>

\* lines 286-293: the final turn is requested again, streaming
OpenStream ==
    /\ pc = "open_stream"
    /\ \E s \in BackendStreams(iter) : sq' = s
    /\ parts' = <<>>
    /\ pc' = "stream"
    /\ UNCHANGED <<apiKey, useTracker, tracker, iter, msgs, events, resp, idx, curTc,
                   allTcs, finalText, excText, toolVars, rv, mem, pp, bd>>

\* lines 294-303: one event of the stream; an empty fragment is not yielded
StreamDelta ==
    /\ pc = "stream"
    /\ sq.deltas # <<>>
    /\ LET d == Head(sq.deltas)
       IN  IF d # <<>>
           THEN /\ parts' = Append(parts, d)
                /\ events' = Append(events, DeltaChunk(d))
           ELSE UNCHANGED <<parts, events>>
    /\ sq' = [sq EXCEPT !.deltas = Tail(@)]
    /\ UNCHANGED <<pc, apiKey, useTracker, tracker, iter, msgs, resp, idx, curTc,
                   allTcs, finalText, excText, toolVars, rv, mem, pp, bd>>

\* line 304: the stream closed
StreamClose ==
    /\ pc = "stream"
    /\ sq.deltas = <<>> /\ ~sq.fails
    /\ finalText' = Join(parts)
    /\ pc' = "collect"
    /\ UNCHANGED <<apiKey, useTracker, tracker, iter, msgs, events, resp, idx, curTc,
                   allTcs, parts, sq, excText, toolVars, rv, mem, pp, bd>>

\* lines 305-312: the stream broke; the non-streamed answer is used instead
StreamFallback ==
    /\ pc = "stream"
    /\ sq.deltas = <<>> /\ sq.fails
    /\ finalText' = resp.content
    /\ IF resp.content # <<>>
       THEN events' = Append(events, DeltaChunk(resp.content))
       ELSE UNCHANGED events
    /\ pc' = "collect"
    /\ UNCHANGED <<apiKey, useTracker, tracker, iter, msgs, resp, idx, curTc,
                   allTcs, parts, sq, excText, toolVars, rv, mem, pp, bd>>

\* lines 315-327: an exception of the loop ends the invocation
ErrorCompletion ==
    /\ pc = "except"
    /\ registered' = IF useTracker THEN 0 ELSE registered
    /\ events' = Append(events, DoneChunk(ZenResponse(<<>>, excText, <<>>, <<>>)))
    /\ pc' = "returned"
    /\ UNCHANGED <<apiKey, useTracker, tracker, iter, msgs, resp, idx, curTc, allTcs,
                   parts, sq, finalText, excText, disk, trackers, rv, mem, pp, bd>>

\* lines 330-341: the tracker is stopped and its diff set handed over
CollectDiffs ==
    /\ pc = "collect"
    /\ IF useTracker /\ tracker # 0
       THEN /\ trackers' = [trackers EXCEPT ![tracker] = TrackerStop(@)]
            /\ registered' = 0
            /\ IF trackers[tracker].pending # <<>>
               THEN events' = Append(events, DiffReadyChunk(trackers[tracker].pending))
               ELSE UNCHANGED events
       ELSE UNCHANGED <<trackers, registered, events>>
    /\ pc' = "complete"
    /\ UNCHANGED <<apiKey, useTracker, tracker, iter, msgs, resp, idx, curTc, allTcs,
                   parts, sq, finalText, excText, disk, rv, mem, pp, bd>>

\* lines 343-353: the completion chunk
Complete ==
    /\ pc = "complete"
    /\ events' = Append(events,
                   DoneChunk(ZenResponse(finalText, "", allTcs,
                                         IF useTracker /\ tracker # 0
                                         THEN trackers[tracker].pending ELSE <<>>)))
    /\ pc' = "returned"
    /\ UNCHANGED <<apiKey, useTracker, tracker, iter, msgs, resp, idx, curTc, allTcs,
                   parts, sq, finalText, excText, toolVars, rv, mem, pp, bd>>

-----------------------------------------------------------------------------
(* Values of the parts of the state a specification does not exercise *)

RvIdle  == [pc |-> "idle", reviewer |-> "", auto_accept |-> FALSE, diffs |-> <<>>,
            i |-> 0, accept_all |-> FALSE, accepted |-> <<>>, rejected |-> <<>>,
            before |-> <<>>]
MemIdle == [msgs |-> <<>>, limit |-> 0, added |-> <<>>, last |-> "", n |-> 0]
PpIdle  == [pc |-> "idle", text |-> <<>>, plan |-> <<>>]
BdIdle  == [pc |-> "off"]

ToolsIdle ==
    /\ disk = [n \in Nodes |-> Absent]
    /\ trackers = <<>>
    /\ registered = 0

RunOff ==
    /\ RunIdle
    /\ apiKey = TRUE /\ useTracker = FALSE /\ tracker = 0

-----------------------------------------------------------------------------
(* One orchestrator invocation *)

InitDisks ==
    { [n \in Nodes |-> IF n = "a.txt" THEN e ELSE Absent] : e \in {Absent, File(<<"x">>)} }

\* the trackers a caller may hand to _run_agent: never started, or started
SuppliedTrackers == { NewTracker, TrackerStart(NewTracker) }

Init ==
    /\ RunIdle
    /\ apiKey \in BOOLEAN
    /\ useTracker \in BOOLEAN
    /\ \/ trackers = <<>> /\ tracker = 0
       \/ useTracker /\ \E t \in SuppliedTrackers : trackers = <<t>> /\ tracker = 1
    /\ registered = 0
    /\ disk \in InitDisks
    /\ rv = RvIdle /\ mem = MemIdle /\ pp = PpIdle /\ bd = BdIdle

Next ==
    \/ Begin
    \/ Request
    \/ LoopExhausted
    \/ EmitToolCall
    \/ DispatchTool
    \/ AttachToolMsg
    \/ OpenStream
    \/ StreamDelta
    \/ StreamClose
    \/ StreamFallback
    \/ ErrorCompletion
    \/ CollectDiffs
    \/ Complete

Spec == Init /\ [][Next]_vars

\* one invocation in which the backend asks for calls that do not fit a tool
InitProbe ==
    /\ RunIdle
    /\ apiKey = TRUE
    /\ useTracker \in BOOLEAN
    /\ trackers = <<>> /\ tracker = 0
    /\ registered = 0
    /\ disk \in InitDisks
    /\ rv = RvIdle /\ mem = MemIdle /\ pp = PpIdle /\ bd = [pc |-> "probe"]

SpecProbe == InitProbe /\ [][Next]_vars

\* a generator that is pulled runs to its end
FairSpec == Spec /\ WF_vars(Next)

-----------------------------------------------------------------------------
(* Properties of one orchestrator invocation *)

Last(q) == q[Len(q)]

DoneEvents == SelectSeq(events, LAMBDA e : e.chunk_type = "done")

\* the generator has ended: it returned, or an exception left it
Ended == pc \in {"returned", "raised"}

\* the events end with the only completion event
EndsWithOneCompletion ==
    /\ Len(DoneEvents) = 1
    /\ Last(events).chunk_type = "done"

MutatingTools == {"file_write", "file_patch", "file_delete"}

\* C1: while a diff tracker is active, no file_write, file_patch or file_delete
\* call dispatched by the orchestrator changes the disk (no reviewer acts during
\* the invocation, so the disk has to stay as it is).
C1_TrackedCallsLeaveDisk ==
    [][ ( /\ pc = "dispatch"
          /\ curTc.name \in MutatingTools
          /\ Intercepting(trackers, registered) )
        => disk' = disk ]_vars

\* C4: every invocation that has ended has yielded exactly one completion
\* event, and that event is the last one.
C4_EndsWithOneCompletion ==
    /\ Len(DoneEvents) <= 1
    /\ Ended => EndsWithOneCompletion

\* communication with the backend has failed in this invocation: no client for
\* want of an API key, a failed or malformed answer, or a broken stream
CommFailed ==
    \/ ~apiKey /\ pc # "idle"
    \/ resp.kind = "raise" /\ iter >= 1
    \/ sq.fails /\ sq.deltas = <<>> /\ pc \in {"collect", "complete", "returned"}

\* C5: once communication with the backend has failed, the invocation ends with
\* exactly one completion event, its error set, and no further request is made.
C5_CommFailureEndsInError ==
    /\ CommFailed => pc \notin {"request", "open_stream"}
    /\ (CommFailed /\ Ended) =>
          /\ EndsWithOneCompletion
          /\ Last(events).response.error # ""

ToolMsgs == SelectSeq(msgs, LAMBDA m : m.role = "tool")

\* the tool results that have been attached and reported back: all of all_tcs,
\* but the one whose tool message is about to be appended
Reported == IF pc = "attach" THEN SubSeq(allTcs, 1, Len(allTcs) - 1) ELSE allTcs

\* the last call of the answer to the latest request failed and its tool
\* message has been appended
AfterFailedCall ==
    /\ pc = "request" /\ allTcs # <<>>
    /\ ~Last(allTcs).result.success

\* a failed result is reported to the backend like any other, the other calls
\* of the answer run, and only a failed request leads to an error completion
FailedResultsHandled ==
    LET tm == ToolMsgs
        rp == Reported
    IN  /\ \A k \in 1..Len(rp) :
              ~rp[k].result.success =>
                  /\ tm[k] = ToolMsg(rp[k])
                  /\ tm[k].content.success = FALSE
        /\ (pc = "request" /\ iter >= 1 /\ resp.kind = "choice") =>
              \A k \in 1..Len(resp.tool_calls) :
                  allTcs[Len(allTcs) - Len(resp.tool_calls) + k].tool_id = CallId(iter, k)
        /\ pc = "except" => resp.kind = "raise"
        /\ (events # <<>> /\ Last(events).chunk_type = "done"
              /\ Last(events).response.error # "") => resp.kind = "raise"

\* C6 as stated: a failed tool call does not end the invocation; it is reported
\* as a tool message, the other calls of the answer are dispatched, the next
\* request is made, and no error completion comes of it.
C6_Original ==
    /\ FailedResultsHandled
    /\ AfterFailedCall => ENABLED Request

\* C6 as amended: the same, the next request being made unless the failed call
\* was in the answer to the _MAX_ITERS-th request, after which the invocation
\* completes without error.
C6_FailedToolNotFatal ==
    /\ FailedResultsHandled
    /\ (AfterFailedCall /\ iter < _MAX_ITERS) => ENABLED Request
    /\ (AfterFailedCall /\ iter = _MAX_ITERS) => ENABLED LoopExhausted
    /\ (pc = "returned" /\ resp.kind = "choice") => Last(events).response.error = ""

\* a failed call was followed by another call of the same answer, and the next
\* request has been made
C6_Witness ==
    /\ iter = 2
    /\ Len(allTcs) >= 2
    /\ ~allTcs[1].result.success
    /\ allTcs[2].tool_id = CallId(1, 2)

\* C7: one invocation makes at most _MAX_ITERS non-streaming requests, and once
\* started it ends with a completion event, whatever the backend answers.
C7_BoundedIterations ==
    /\ [](iter <= _MAX_ITERS)
    /\ [](Len(SelectSeq(msgs, LAMBDA m : m.role = "assistant")) <= _MAX_ITERS)
    /\ (pc = "request") ~> (pc = "returned" /\ EndsWithOneCompletion)

\* every one of the _MAX_ITERS requests was answered with tool calls, and the
\* invocation ended with its completion event
C7_Witness ==
    /\ pc = "returned"
    /\ iter = _MAX_ITERS
    /\ Len(SelectSeq(msgs, LAMBDA m : m.role = "assistant")) = _MAX_ITERS
    /\ EndsWithOneCompletion

ToolEvents == SelectSeq(events, LAMBDA e : e.chunk_type \in {"tool_call", "tool_result"})

\* the calls the assistant messages list, in message order
RECURSIVE ListedCalls(_)
ListedCalls(ms) ==
    IF ms = <<>> THEN <<>>
    ELSE (IF Head(ms).role = "assistant" THEN Head(ms).tool_calls ELSE <<>>)
         \o ListedCalls(Tail(ms))

\* C8: tool messages follow the assistant message that lists their calls, in
\* the order listed; each call's 'tool invoked' event comes before its dispatch,
\* and its 'tool completed' event after the result is attached and before the
\* next call's 'tool invoked' event.
C8_ToolOrder ==
    LET tm == ToolMsgs
        lc == ListedCalls(msgs)
        te == ToolEvents
    IN  /\ \A j \in 1..Len(msgs) :
              msgs[j].role = "assistant" =>
                  \A k \in 1..Len(msgs[j].tool_calls) :
                      j + k <= Len(msgs) =>
                          /\ msgs[j + k].role = "tool"
                          /\ msgs[j + k].tool_call_id = msgs[j].tool_calls[k].id
                          /\ msgs[j + k].name = msgs[j].tool_calls[k].name
        /\ Len(tm) <= Len(lc)
        /\ \A k \in 1..Len(tm) : tm[k].tool_call_id = lc[k].id
        /\ Len(tm) = Len(Reported)
        /\ Len(te) = 2 * Len(allTcs) + (IF pc = "dispatch" THEN 1 ELSE 0)
        /\ \A n \in 1..Len(te) :
              IF n % 2 = 1
              THEN /\ te[n].chunk_type = "tool_call"
                   /\ ~te[n].tool_call.attached
                   /\ te[n].tool_call.tool_id = lc[(n + 1) \div 2].id
              ELSE /\ te[n].chunk_type = "tool_result"
                   /\ te[n].tool_call.attached
                   /\ te[n].tool_call = allTcs[n \div 2]
                   /\ te[n].tool_call.tool_id = te[n - 1].tool_call.tool_id

\* an answer with two calls has been handled: both tool messages are in place
C8_Witness ==
    \E j \in 1..Len(msgs) :
        /\ msgs[j].role = "assistant"
        /\ Len(msgs[j].tool_calls) = 2
        /\ j + 2 <= Len(msgs)
        /\ msgs[j + 2].role = "tool"
        /\ Len(ToolEvents) >= 4

-----------------------------------------------------------------------------
(* Diff review: DiffReviewer (diff/engine.py) and run_diff_review (CLI.py) *)

MaxDiffs == 2

\* writing without creating the parent directories
ApplyDiff_NoMkdir(dk, d) ==
    IF d.is_delete
    THEN IF Exists(dk, d.path) THEN Unlink(dk, d.path) ELSE Ok(dk)
    ELSE WriteText(dk, d.path, d.new_content)

\* DiffReviewer._apply_diff
ApplyDiff(dk, d) ==
    IF d.is_delete
    THEN IF Exists(dk, d.path) THEN Unlink(dk, d.path) ELSE Ok(dk)
    ELSE LET m == MkdirParents(dk, d.path)
         IN  IF m.ok THEN WriteText(m.disk, d.path, d.new_content) ELSE m

\* CLI._write_diff
WriteDiff(dk, d) ==
    IF d.is_delete
    THEN IF Exists(dk, d.path) THEN Unlink(dk, d.path) ELSE Ok(dk)
    ELSE LET m == MkdirParents(dk, d.path)
         IN  IF m.ok THEN WriteText(m.disk, d.path, d.new_content) ELSE m

\* what the reviewer types at a prompt; "EOF" is EOFError or KeyboardInterrupt
Typed == {"a", "A", "y", "r", "s", "all", "d", "?", "zz", "EOF"}

\* .strip().lower() of the typed line; an interrupted prompt counts as "s"
Normalize(t) ==
    IF t = "EOF" THEN "s"
    ELSE IF t = "A" THEN "a"
    ELSE t

\* DiffReviewer.review, lines 251-283: the branch taken on an answer
Decide(r) ==
    IF r = "?" \/ r = "help" THEN "again"
    ELSE IF r = "d" THEN "again"
    ELSE IF r \in {"a", "y", "yes", ""} THEN "accept"
    ELSE IF r \in {"r", "n", "no"} THEN "reject"
    ELSE IF r = "a" THEN "accept_all"
    ELSE IF r \in {"s", "skip"} THEN "skip"
    ELSE "again"

\* run_diff_review, lines 302-309: the branch taken on an answer
CliDecide(r) ==
    IF r = "d" THEN "again"
    ELSE IF r \in {"a", "y", "", "accept"} THEN "accept"
    ELSE IF r \in {"r", "n", "reject", "no"} THEN "reject"
    ELSE IF r \in {"a_all", "all"} \/ r = "A" THEN "accept_all"
    ELSE IF r \in {"s", "skip"} THEN "skip"
    ELSE "again"

Decision(t) ==
    IF rv.reviewer = "CLI" THEN CliDecide(Normalize(t)) ELSE Decide(Normalize(t))

\* the function the reviewer in charge applies a diff with
Apply(dk, d) == IF rv.reviewer = "CLI" THEN WriteDiff(dk, d) ELSE ApplyDiff(dk, d)

\* where the review goes once diff i is dealt with
Advance(r) ==
    IF r.i < Len(r.diffs) THEN [r EXCEPT !.i = @ + 1] ELSE [r EXCEPT !.pc = "done"]

\* review / run_diff_review up to the first prompt: an empty set and
\* auto_accept are settled without one
ReviewStart ==
    /\ rv.pc = "idle"
    /\ rv' = IF rv.auto_accept /\ rv.diffs # <<>>
             THEN [rv EXCEPT !.pc = "apply_all", !.i = 1]
             ELSE IF rv.diffs = <<>> THEN [rv EXCEPT !.pc = "done"]
             ELSE [rv EXCEPT !.pc = "prompt", !.i = 1]
    /\ UNCHANGED <<runVars, toolVars, mem, pp, bd>>

\* DiffReviewer._apply_all, one diff; review returns all diffs as accepted
ApplyAllNext ==
    /\ rv.pc = "apply_all"
    /\ LET a == ApplyDiff(disk, rv.diffs[rv.i])
       IN  /\ disk' = a.disk
           /\ rv' = IF ~a.ok THEN [rv EXCEPT !.pc = "raised"]
                    ELSE IF rv.i < Len(rv.diffs) THEN [rv EXCEPT !.i = @ + 1]
                    ELSE [rv EXCEPT !.pc = "done", !.accepted = rv.diffs]
    /\ UNCHANGED <<runVars, trackers, registered, mem, pp, bd>>

\* the loop with accept_all set: the diff is applied without a prompt
ReviewAutoNext ==
    /\ rv.pc = "prompt" /\ rv.accept_all
    /\ LET a == Apply(disk, rv.diffs[rv.i])
       IN  /\ disk' = a.disk
           /\ rv' = IF ~a.ok THEN [rv EXCEPT !.pc = "raised"]
                    ELSE Advance([rv EXCEPT !.accepted = Append(@, rv.diffs[rv.i])])
    /\ UNCHANGED <<runVars, trackers, registered, mem, pp, bd>>

\* an answer that accepts the diff shown
ReviewAccept ==
    /\ rv.pc = "prompt" /\ ~rv.accept_all
    /\ \E t \in Typed : Decision(t) = "accept"
    /\ LET a == Apply(disk, rv.diffs[rv.i])
       IN  /\ disk' = a.disk
           /\ rv' = IF ~a.ok THEN [rv EXCEPT !.pc = "raised"]
                    ELSE Advance([rv EXCEPT !.accepted = Append(@, rv.diffs[rv.i])])
    /\ UNCHANGED <<runVars, trackers, registered, mem, pp, bd>>

\* an answer that accepts the diff shown and all that follow
ReviewAcceptAll ==
    /\ rv.pc = "prompt" /\ ~rv.accept_all
    /\ \E t \in Typed : Decision(t) = "accept_all"
    /\ LET a == Apply(disk, rv.diffs[rv.i])
       IN  /\ disk' = a.disk
           /\ rv' = IF ~a.ok THEN [rv EXCEPT !.pc = "raised"]
                    ELSE Advance([rv EXCEPT !.accepted = Append(@, rv.diffs[rv.i]),
                                            !.accept_all = TRUE])
    /\ UNCHANGED <<runVars, trackers, registered, mem, pp, bd>>

\* a plausible slip: the rejected diff is written all the same
ReviewReject_Applies ==
    /\ rv.pc = "prompt" /\ ~rv.accept_all
    /\ \E t \in Typed : Decision(t) \in {"reject", "skip"}
    /\ disk' = Apply(disk, rv.diffs[rv.i]).disk
    /\ rv' = Advance([rv EXCEPT !.rejected = Append(@, rv.diffs[rv.i])])
    /\ UNCHANGED <<runVars, trackers, registered, mem, pp, bd>>

\* an answer that rejects or skips the diff shown (run_diff_review keeps no
\* list of them; rv.rejected records them for both reviewers)
ReviewReject ==
    /\ rv.pc = "prompt" /\ ~rv.accept_all
    /\ \E t \in Typed : Decision(t) \in {"reject", "skip"}
    /\ rv' = Advance([rv EXCEPT !.rejected = Append(@, rv.diffs[rv.i])])
    /\ UNCHANGED <<runVars, toolVars, mem, pp, bd>>

\* help, show diff, or an answer that is not understood: the prompt comes again
ReviewAgain ==
    /\ rv.pc = "prompt" /\ ~rv.accept_all
    /\ \E t \in Typed : Decision(t) = "again"
    /\ UNCHANGED vars

ReviewDisks ==
    { [n \in Nodes |-> CASE n = "a.txt"   -> a
                         [] n = "d"       -> IF b = Absent THEN dd ELSE Dir
                         [] n = "d/b.txt" -> b] :
        a \in {Absent, File(<<"x">>)}, b \in {Absent, File(<<"x">>)}, dd \in {Absent, Dir} }

\* the FileDiffs a diff set is made of: a write or a deletion of a path
ReviewDiffs ==
    { FileDiff(p, <<>>, <<"n">>, FALSE, FALSE) : p \in {"a.txt", "d/b.txt"} }
    \cup { FileDiff(p, <<>>, <<>>, FALSE, TRUE) : p \in {"a.txt", "d/b.txt"} }

RECURSIVE SeqsUpTo(_, _)
\* the sequences over S of length at most n
SeqsUpTo(S, n) ==
    IF n = 0 THEN { <<>> }
    ELSE LET shorter == SeqsUpTo(S, n - 1)
         IN  shorter \cup { Append(q, x) : q \in shorter, x \in S }

InitReview ==
    /\ RunOff
    /\ trackers = <<>> /\ registered = 0
    /\ disk \in ReviewDisks
    /\ \E ds \in SeqsUpTo(ReviewDiffs, MaxDiffs), who \in {"DiffReviewer", "CLI"},
          auto \in BOOLEAN :
          /\ who = "CLI" => ~auto
          /\ rv = [RvIdle EXCEPT !.reviewer = who, !.auto_accept = auto,
                                 !.diffs = ds, !.before = disk]
    /\ mem = MemIdle /\ pp = PpIdle /\ bd = BdIdle

NextReview ==
    \/ ReviewStart
    \/ ApplyAllNext
    \/ ReviewAutoNext
    \/ ReviewAccept
    \/ ReviewAcceptAll
    \/ ReviewReject
    \/ ReviewAgain

SpecReview == InitReview /\ [][NextReview]_vars

-----------------------------------------------------------------------------
(* Properties of a review *)

\* the step applies the diff it is at: it moves on and rejects nothing
AppliesDiff ==
    /\ rv.pc \in {"apply_all", "prompt"}
    /\ rv' # rv
    /\ rv'.rejected = rv.rejected

\* what applying diff d has to make of disk dk
Applied(d, dk, after) ==
    IF d.is_delete
    THEN /\ ~Exists(after, d.path)
         /\ ~Exists(dk, d.path) => after = dk
         /\ \A n \in Nodes \ {d.path} : after[n] = dk[n]
    ELSE /\ after[d.path] = File(d.new_content)
         /\ Parent(d.path) # "" => IsDir(after, Parent(d.path))
         /\ \A n \in Nodes \ {d.path, Parent(d.path)} : after[n] = dk[n]

\* C2: applying an accepted diff leaves the target with exactly new_content,
\* its parent directories created; a deletion diff removes the file when it is
\* there and succeeds, changing nothing, when it is not.
C2_ApplyWritesNewContent ==
    [][ AppliesDiff => /\ Applied(rv.diffs[rv.i], disk, disk')
                       /\ rv'.pc # "raised" ]_vars

\* a write into a directory that did not exist and the deletion of a file that
\* did not exist have both been applied
C2_Witness ==
    /\ rv.pc = "done"
    /\ rv.before["d"] = Absent /\ rv.before["a.txt"] = Absent
    /\ rv.accepted = << FileDiff("d/b.txt", <<>>, <<"n">>, FALSE, FALSE),
                        FileDiff("a.txt", <<>>, <<>>, FALSE, TRUE) >>
    /\ disk["d/b.txt"] = File(<<"n">>) /\ IsDir(disk, "d")
    /\ ~Exists(disk, "a.txt")

RECURSIVE ApplyAll(_, _)
\* disk dk with the diffs ds applied in order
ApplyAll(dk, ds) ==
    IF ds = <<>> THEN dk ELSE ApplyAll(ApplyDiff(dk, Head(ds)).disk, Tail(ds))

\* C3: at every prompt and at the end of a review the disk is the disk the
\* review started with, with the accepted diffs applied and nothing else:
\* rejecting or skipping a diff changes nothing.
C3_RejectLeavesDisk ==
    rv.pc \in {"prompt", "done"} => disk = ApplyAll(rv.before, rv.accepted)

\* a review ended with a diff rejected, another accepted, and the disk changed
C3_Witness ==
    /\ rv.pc = "done"
    /\ rv.rejected # <<>> /\ rv.accepted # <<>>
    /\ rv.rejected[1].path # rv.accepted[1].path
    /\ disk # rv.before

-----------------------------------------------------------------------------
(* Memory (core.py) and the configured chat_history_limit (config.py) *)

MaxAdds  == 5
MaxLimit == 3

\* _RULES["chat_history_limit"] = (int, 1, 200, None)
LimitMin == 1
LimitMax == 200

\* a plausible slip: q[:n], the oldest n elements
PySliceLast_KeepsOldest(q, n) == SubSeq(q, 1, IF n < Len(q) THEN n ELSE Len(q))

\* q[-n:] as Python computes it: the last n elements for 0 < n, all of q for
\* n = 0, and q without its first -n elements for n < 0
PySliceLast(q, n) ==
    IF n > 0 THEN (IF n >= Len(q) THEN q ELSE SubSeq(q, Len(q) - n + 1, Len(q)))
    ELSE SubSeq(q, 1 - n, Len(q))

\* Memory.add, lines 124-127, on the list
MemoryAdd(q, m, limit) ==
    LET grown == Append(q, m)
    IN  IF Len(grown) > limit THEN PySliceLast(grown, limit) ELSE grown

\* Memory.add; mem.added logs what was added since the last clear
MemAdd ==
    /\ mem.n < MaxAdds
    /\ \E role \in {"user", "assistant"} :
         LET m == [role |-> role, content |-> mem.n + 1]
         IN  mem' = [mem EXCEPT !.msgs = MemoryAdd(mem.msgs, m, mem.limit),
                                !.added = Append(@, m),
                                !.n = @ + 1,
                                !.last = "add"]
    /\ UNCHANGED <<runVars, toolVars, rv, pp, bd>>

\* Memory.clear
MemClear ==
    /\ mem.last # "clear"
    /\ mem' = [mem EXCEPT !.msgs = <<>>, !.added = <<>>, !.last = "clear"]
    /\ UNCHANGED <<runVars, toolVars, rv, pp, bd>>

\* ZenConfig._validate for chat_history_limit: the value, or ValueError
ValidLimit(v) == v >= LimitMin /\ v <= LimitMax

\* cfg.set("chat_history_limit", v); a value _validate refuses changes nothing
SetLimit ==
    /\ \E v \in 0..MaxLimit :
         /\ v # mem.limit
         /\ mem' = IF ValidLimit(v) THEN [mem EXCEPT !.limit = v, !.last = "set"]
                   ELSE [mem EXCEPT !.last = "refused"]
    /\ UNCHANGED <<runVars, toolVars, rv, pp, bd>>

InitMemory ==
    /\ RunOff /\ ToolsIdle
    /\ rv = RvIdle /\ pp = PpIdle /\ bd = BdIdle
    /\ \E l \in LimitMin..MaxLimit : mem = [MemIdle EXCEPT !.limit = l, !.last = "init"]

NextMemory ==
    \/ MemAdd
    \/ MemClear
    \/ SetLimit

SpecMemory == InitMemory /\ [][NextMemory]_vars

\* the last n elements of q, all of q when it has no more than n
LastN(q, n) == [k \in 1..(IF Len(q) < n THEN Len(q) ELSE n) |->
                    q[Len(q) - (IF Len(q) < n THEN Len(q) ELSE n) + k]]

IsSuffix(q, whole) ==
    /\ Len(q) <= Len(whole)
    /\ \A k \in 1..Len(q) : q[k] = whole[Len(whole) - Len(q) + k]

\* C9: after every add or clear the log holds at most chat_history_limit
\* messages, the limit being the one read at that add; what the log holds is
\* always the most recent messages added, in their order, and an add that
\* pushes the log over the limit leaves exactly the most recent `limit` ones.
C9_MemoryBounded ==
    /\ [](mem.last \in {"add", "clear"} => Len(mem.msgs) <= mem.limit)
    /\ [](IsSuffix(mem.msgs, mem.added))
    /\ [][ mem'.n = mem.n + 1 =>
             mem'.msgs = LastN(Append(mem.msgs, Last(mem'.added)), mem.limit) ]_vars

\* an add has pushed the oldest messages out of a log of more than one message
C9_Witness ==
    /\ mem.last = "add"
    /\ mem.limit >= 2
    /\ Len(mem.msgs) = mem.limit
    /\ Len(mem.added) >= mem.limit + 2

-----------------------------------------------------------------------------
(* parse_build_plan (core.py); text is a sequence of characters *)

MaxTasks == 2

Lowers == <<"a","b","c","d","e","f","g","h","i","j","k","l","m",
            "n","o","p","q","r","s","t","u","v","w","x","y","z">>
Uppers == <<"A","B","C","D","E","F","G","H","I","J","K","L","M",
            "N","O","P","Q","R","S","T","U","V","W","X","Y","Z">>
Letters   == {Lowers[k] : k \in DOMAIN Lowers} \cup {Uppers[k] : k \in DOMAIN Uppers}
Digits    == {"0","1","2","3","4","5","6","7","8","9"}
WordChars == Letters \cup Digits \cup {"_"}
Spaces    == {" ", "\n", "\t"}

\* str.lower
LowerChar(c) ==
    IF \E k \in DOMAIN Uppers : Uppers[k] = c
    THEN Lowers[CHOOSE k \in DOMAIN Uppers : Uppers[k] = c] ELSE c

Lower(t) == [k \in DOMAIN t |-> LowerChar(t[k])]

\* str.strip
Strip(t) ==
    LET inked == {k \in DOMAIN t : t[k] \notin Spaces}
    IN  IF inked = {} THEN <<>>
        ELSE SubSeq(t, CHOOSE k \in inked : \A j \in inked : k <= j,
                       CHOOSE k \in inked : \A j \in inked : j <= k)

Least(S) == CHOOSE x \in S : \A y \in S : x <= y

\* the literal kw stands in t at index i
StartsAt(t, i, kw) ==
    /\ i + Len(kw) - 1 <= Len(t)
    /\ \A k \in DOMAIN kw : t[i + k - 1] = kw[k]

\* a greedy class* from index i: the first index it does not take
RunEnd(t, i, class) ==
    IF \E k \in i..Len(t) : t[k] \notin class
    THEN Least({k \in i..Len(t) : t[k] \notin class})
    ELSE Len(t) + 1

\* a slip in the pattern: the capture stops at the first blank
LineEnd_StopsAtBlank(t, i) ==
    IF \E k \in i..Len(t) : t[k] \in Spaces
    THEN Least({k \in i..Len(t) : t[k] \in Spaces})
    ELSE Len(t) + 1

\* (.+?)(?:\n|$) from index i: the index of the newline, or just past the text
LineEnd(t, i) ==
    IF \E k \in i..Len(t) : t[k] = "\n"
    THEN Least({k \in i..Len(t) : t[k] = "\n"})
    ELSE Len(t) + 1

\* \s*(.+?)(?:\n|$) tried at index p: where the group starts, 0 for no match.
\* \s* takes every blank (newlines too); at the end of the text it gives back
\* blanks until the group has a character that is not a newline.
GroupStart(t, p) ==
    LET q == RunEnd(t, p, Spaces)
        given == {k \in p..Len(t) : t[k] # "\n"}
    IN  IF q <= Len(t) THEN q
        ELSE IF given = {} THEN 0
        ELSE CHOOSE k \in given : \A j \in given : j <= k

Group(t, p) == SubSeq(t, GroupStart(t, p), LineEnd(t, GroupStart(t, p)) - 1)

KwBuildPlan == <<"B", "U", "I", "L", "D", " ", "P", "L", "A", "N", ":">>
KwTargetDir == <<"T", "A", "R", "G", "E", "T", " ", "D", "I", "R", ":">>
KwStack     == <<"S", "T", "A", "C", "K", ":">>

Contains(t, kw) == \E i \in DOMAIN t : StartsAt(t, i, kw)

\* re.search(kw \s*(.+?)(?:\n|$)).group(1).strip(), or the default
Field(t, kw, default) ==
    LET hits == {i \in DOMAIN t : StartsAt(t, i, kw) /\ GroupStart(t, i + Len(kw)) # 0}
    IN  IF hits = {} THEN default
        ELSE Strip(Group(t, Least(hits) + Len(kw)))

\* \[(\w+)\]\s+([A-Z]\d+):\s*(.+?)(?:\n|$) with re.I, tried at index i
TaskMatch(t, i) ==
    LET a == i + 1
        b == RunEnd(t, a, WordChars)
        c == b + 1
        d == RunEnd(t, c, Spaces)
        e == d + 1
        f == RunEnd(t, e, Digits)
        g == GroupStart(t, f + 1)
    IN  IF /\ t[i] = "["
           /\ b > a /\ b <= Len(t) /\ t[b] = "]"
           /\ d > c /\ d <= Len(t) /\ t[d] \in Letters
           /\ f > e /\ f <= Len(t) /\ t[f] = ":"
           /\ g # 0
        THEN [ok    |-> TRUE,
              agent |-> SubSeq(t, a, b - 1),
              label |-> SubSeq(t, d, f - 1),
              desc  |-> SubSeq(t, g, LineEnd(t, g) - 1),
              next  |-> LineEnd(t, g) + 1]
        ELSE [ok |-> FALSE]

\* re.finditer: the matches from left to right, none overlapping
RECURSIVE FindTasks(_, _)
FindTasks(t, pos) ==
    LET starts == {i \in pos..Len(t) : TaskMatch(t, i).ok}
    IN  IF starts = {} THEN <<>>
        ELSE LET m == TaskMatch(t, Least(starts))
             IN  <<m>> \o FindTasks(t, m.next)

\* the registry of agents/__init__.py
AGENTS == { <<"c", "h", "a", "t">>,
            <<"r", "e", "s", "e", "a", "r", "c", "h", "e", "r">>,
            <<"a", "r", "c", "h", "i", "t", "e", "c", "t">>,
            <<"c", "o", "d", "e", "r">>,
            <<"d", "e", "b", "u", "g">>,
            <<"g", "i", "t">> }

BuildTask(agent, label, description) ==
    [agent |-> agent, label |-> label, description |-> description]

BuildPlan(name, target, stack, tasks) ==
    [none |-> FALSE, name |-> name, target_dir |-> target, stack |-> stack,
     tasks |-> tasks]

NoPlan == [none |-> TRUE]

DefaultName   == <<"p", "r", "o", "j", "e", "c", "t">>
DefaultTarget == <<".">>
DefaultStack  == <<"P", "y", "t", "h", "o", "n">>

\* the agent filter left out
KeepRegistered_KeepsAll(ms) ==
    [k \in DOMAIN ms |-> BuildTask(Lower(ms[k].agent), ms[k].label, Strip(ms[k].desc))]

RECURSIVE KeepRegistered_Reversed(_)
\* the registered tasks collected back to front
KeepRegistered_Reversed(ms) ==
    IF ms = <<>> THEN <<>>
    ELSE LET agent == Lower(Head(ms).agent)
         IN  KeepRegistered_Reversed(Tail(ms))
             \o (IF agent \in AGENTS
                 THEN <<BuildTask(agent, Head(ms).label, Strip(Head(ms).desc))>>
                 ELSE <<>>)

RECURSIVE KeepRegistered(_)
KeepRegistered(ms) ==
    IF ms = <<>> THEN <<>>
    ELSE LET agent == Lower(Head(ms).agent)
         IN  (IF agent \in AGENTS
              THEN <<BuildTask(agent, Head(ms).label, Strip(Head(ms).desc))>>
              ELSE <<>>) \o KeepRegistered(Tail(ms))

parse_build_plan(t) ==
    IF ~Contains(t, KwBuildPlan) THEN NoPlan
    ELSE LET tasks == KeepRegistered(FindTasks(t, 1))
         IN  IF tasks = <<>> THEN NoPlan
             ELSE BuildPlan(Field(t, KwBuildPlan, DefaultName),
                            Field(t, KwTargetDir, DefaultTarget),
                            Field(t, KwStack, DefaultStack), tasks)

\* plan texts in the documented layout
PlanNames   == { <<"F", "o", "o">>, <<"m", "y", " ", "a", "p", "p">> }
PlanTargets == { <<".">>, <<"s", "u", "b">> }
PlanStacks  == { <<"G", "o">>, <<"N", "o", "d", "e", ".", "j", "s">> }
LineAgents  == { <<"c", "o", "d", "e", "r">>, <<"d", "e", "b", "u", "g">> }
LineLabels  == { <<"C", "1">>, <<"D", "1">>, <<"A", "B", "1">> }
LineDescs   == { <<"d", "o", " ", "X">>, <<"f", "i", "x">> }

TaskLines == [agent : LineAgents, label : LineLabels, description : LineDescs]

RECURSIVE RenderLines(_)
RenderLines(ls) ==
    IF ls = <<>> THEN <<>>
    ELSE <<"\n", "[">> \o Head(ls).agent \o <<"]", " ">> \o Head(ls).label
         \o <<":", " ">> \o Head(ls).description \o RenderLines(Tail(ls))

Render(src) ==
    KwBuildPlan \o <<" ">> \o src.name \o <<"\n">>
    \o KwTargetDir \o <<" ">> \o src.target \o <<"\n">>
    \o KwStack \o <<" ">> \o src.stack \o RenderLines(src.lines)

\* the model's final text is handed to parse_build_plan (core.py line 369)
ParsePlan ==
    /\ pp.pc = "text"
    /\ pp' = [pp EXCEPT !.pc = "parsed", !.plan = parse_build_plan(pp.text)]
    /\ UNCHANGED <<runVars, toolVars, rv, mem, bd>>

InitParse ==
    /\ RunOff /\ ToolsIdle
    /\ rv = RvIdle /\ mem = MemIdle /\ bd = BdIdle
    /\ \E name \in PlanNames, target \in PlanTargets, stack \in PlanStacks,
          lines \in SeqsUpTo(TaskLines, MaxTasks) :
         LET src == [name |-> name, target |-> target, stack |-> stack,
                     lines |-> lines]
         IN  pp = [pc |-> "text", src |-> src, text |-> Render(src), plan |-> NoPlan]

NextParse == ParsePlan

SpecParse == InitParse /\ [][NextParse]_vars

\* what the plan text says, line by line
Written(src) ==
    BuildPlan(src.name, src.target, src.stack,
              [k \in DOMAIN src.lines |->
                  BuildTask(src.lines[k].agent, src.lines[k].label,
                            src.lines[k].description)])

\* one letter followed by digits
ShortLabel(l) ==
    /\ Len(l) >= 2
    /\ l[1] \in Letters
    /\ \A k \in 2..Len(l) : l[k] \in Digits

\* C10 as stated: every text of the documented layout with task lines naming
\* registered agents parses to the plan it spells out, whatever the labels are
C10_Original ==
    (pp.pc = "parsed" /\ pp.src.lines # <<>>) => pp.plan = Written(pp.src)

\* C10: a text of the documented layout whose task lines name registered
\* agents and carry labels of one letter followed by digits parses to a plan
\* with the text's name, target and stack and one task per task line, in
\* textual order, with that line's agent, label and description
C10_ParsesDocumentedPlan ==
    ( /\ pp.pc = "parsed"
      /\ pp.src.lines # <<>>
      /\ \A k \in DOMAIN pp.src.lines : ShortLabel(pp.src.lines[k].label) )
    => pp.plan = Written(pp.src)

\* the plan Foo / . / Go with a coder task and then a debug task has been parsed
C10_Witness ==
    /\ pp.pc = "parsed"
    /\ pp.src.name = <<"F", "o", "o">>
    /\ pp.src.stack = <<"G", "o">>
    /\ Len(pp.src.lines) = 2
    /\ pp.src.lines[1].label = <<"C", "1">>
    /\ pp.src.lines[2].label = <<"D", "1">>
    /\ ~pp.plan.none
    /\ pp.plan.tasks[1].agent = <<"c", "o", "d", "e", "r">>
    /\ pp.plan.tasks[2].agent = <<"d", "e", "b", "u", "g">>

-----------------------------------------------------------------------------
(* parse_build_plan on texts that need not be plans *)

\* task lines that name agents outside the registry or carry other labels
AnyAgents == { <<"c", "o", "d", "e", "r">>, <<"d", "e", "b", "u", "g">>,
               <<"g", "h", "o", "s", "t">> }
AnyLabels == { <<"C", "1">>, <<"A", "B", "1">> }
AnyLines  == [agent : AnyAgents, label : AnyLabels, description : {<<"f", "i", "x">>}]

\* the text of src, its BUILD PLAN line left out when src.header is FALSE
RenderAny(src) ==
    (IF src.header THEN KwBuildPlan \o <<" ">> \o src.name \o <<"\n">> ELSE <<>>)
    \o KwTargetDir \o <<" ">> \o src.target \o <<"\n">>
    \o KwStack \o <<" ">> \o src.stack \o RenderLines(src.lines)

InitParseAny ==
    /\ RunOff /\ ToolsIdle
    /\ rv = RvIdle /\ mem = MemIdle /\ bd = BdIdle
    /\ \E header \in BOOLEAN, name \in PlanNames, stack \in PlanStacks,
          lines \in SeqsUpTo(AnyLines, MaxTasks) :
         LET src == [header |-> header, name |-> name, target |-> <<".">>,
                     stack |-> stack, lines |-> lines]
         IN  pp = [pc |-> "text", src |-> src, text |-> RenderAny(src),
                   plan |-> NoPlan]

SpecParseAny == InitParseAny /\ [][NextParse]_vars

\* a task line the parser makes a task of
Extractable(l) == Lower(l.agent) \in AGENTS /\ ShortLabel(l.label)

\* C11: a text from which no task is extracted, plan header or not, and a text
\* without a plan header, task lines or not, parse to "no plan"
C11_NoTasksNoPlan ==
    ( /\ pp.pc = "parsed"
      /\ \/ ~pp.src.header
         \/ \A k \in DOMAIN pp.src.lines : ~Extractable(pp.src.lines[k]) )
    => pp.plan = NoPlan

\* a text with a plan header and two task lines, none of them extractable,
\* has been parsed
C11_Witness ==
    /\ pp.pc = "parsed"
    /\ pp.src.header
    /\ Len(pp.src.lines) = 2
    /\ \A k \in DOMAIN pp.src.lines : ~Extractable(pp.src.lines[k])
    /\ pp.plan = NoPlan

-----------------------------------------------------------------------------
(* ZenCore.execute_build (core.py), pulled by a caller event by event *)

\* events of one task's invocation, besides diff_ready and done, that the
\* caller sees before the invocation ends
MaxChunks == 1

\* the process's working directory, which relative paths resolve against
Cwd == <<"ws">>

\* a path as a string holds it: relative or absolute, component by component
RelPath(names) == [abs |-> FALSE, parts |-> names]
AbsPath(names) == [abs |-> TRUE,  parts |-> names]

\* Path(p).resolve()
Resolve(p) == IF p.abs THEN p ELSE AbsPath(Cwd \o p.parts)

\* ZenConfig.workspace()
Workspace(cfgWs) == Resolve(cfgWs)

\* ZenConfig.set_workspace(path)
SetWorkspace(path) == Resolve(path)

\* plan.target_dir: "." and "" are the root, "d" a directory of the workspace
TargetDirs == {".", "", "d"}
IsRootTarget(t) == t \in {".", ""}

\* original_ws / plan.target_dir
Under(ws, t) == AbsPath(ws.parts \o <<t>>)

\* how one _run_agent invocation ends for its caller: with a completion event
\* whose error is None ("ok") or set ("error"), or, for want of an API key,
\* with the RuntimeError of _get_client ("raise")
InvocationEnds(key) == IF key THEN {"ok", "error"} ELSE {"raise"}

\* the finally clause of lines 477-478 left out
Finally_NoRestore(b) == b

\* lines 477-478: cfg.set_workspace(str(original_ws))
Finally(b) == [b EXCEPT !.cfgWs = SetWorkspace(b.original_ws)]

\* the yields inside the try statement of lines 412-476
InTry == {"y_building", "y_task", "y_chunk", "y_diff", "y_done"}

\* lines 389-418, run by the first next()
BuildStart ==
    /\ bd.pc = "created"
    /\ IF ~bd.pending
       THEN /\ bd' = [bd EXCEPT !.pc = "y_noplan"]
            /\ disk' = disk
       ELSE LET original_ws == Workspace(bd.cfgWs)
                b == [bd EXCEPT !.original_ws = original_ws]
            IN  IF IsRootTarget(bd.target_dir)
                THEN /\ bd' = [b EXCEPT !.pc = "y_building"]
                     /\ disk' = disk
                ELSE IF Exists(disk, bd.target_dir)
                THEN /\ bd' = [b EXCEPT !.pc = "y_building",
                                        !.cfgWs = SetWorkspace(Under(original_ws, bd.target_dir))]
                     /\ disk' = disk
                ELSE \/ /\ bd' = [b EXCEPT !.pc = "y_building",
                                           !.cfgWs = SetWorkspace(Under(original_ws, bd.target_dir))]
                        /\ disk' = [disk EXCEPT ![bd.target_dir] = Dir]
                     \/ /\ bd' = [b EXCEPT !.pc = "raised"]   \* mkdir: OSError
                        /\ disk' = disk
    /\ UNCHANGED <<runVars, trackers, registered, rv, mem, pp>>

\* line 393, and the end of the function after line 487
BuildReturn ==
    /\ bd.pc \in {"y_noplan", "y_final"}
    /\ bd' = [bd EXCEPT !.pc = "returned"]
    /\ UNCHANGED <<runVars, toolVars, rv, mem, pp>>

\* lines 422-429 and 477-487: the next task's status, or, the tasks done, the
\* finally clause, the plan cleared and the closing status
BuildNextTask ==
    /\ bd.pc \in {"y_building", "y_done"}
    /\ IF bd.t < Len(bd.tasks)
       THEN bd' = [bd EXCEPT !.pc = "y_task", !.t = @ + 1]
       ELSE bd' = [Finally(bd) EXCEPT !.pc = "y_final", !.pending = FALSE]
    /\ UNCHANGED <<runVars, toolVars, rv, mem, pp>>

\* what the invocation under way yields next: some event, its diff set when
\* the task is tracked and staged something, or its completion event
NextChunk(b) ==
    (IF b.chunks < MaxChunks THEN {"event"} ELSE {})
    \cup (IF ~b.auto_accept /\ b.pc # "y_diff" THEN {"diff_ready"} ELSE {})
    \cup {"done"}

\* lines 452-469: the chunk is passed on; a done chunk with no error adds the
\* task to the summaries
PassOn(b, chunk, ends) ==
    CASE chunk = "event"      -> [b EXCEPT !.pc = "y_chunk", !.chunks = @ + 1]
      [] chunk = "diff_ready" -> [b EXCEPT !.pc = "y_diff"]
      [] chunk = "done"       ->
            [b EXCEPT !.pc = "y_done",
                      !.dones = Append(@, ends),
                      !.completed = IF ends = "ok" THEN Append(@, b.t) ELSE @]

\* lines 431-451: the task's invocation is started and pulled for the first time
BuildInvoke ==
    /\ bd.pc = "y_task"
    /\ \E ends \in InvocationEnds(apiKey) :
         IF ends = "raise"
         THEN bd' = [Finally(bd) EXCEPT !.pc = "raised"]
         ELSE \E chunk \in NextChunk(bd) :
                bd' = PassOn([bd EXCEPT !.ran = Append(@, bd.t), !.chunks = 0,
                                        !.ends = ends], chunk, ends)
    /\ UNCHANGED <<runVars, toolVars, rv, mem, pp>>

\* line 447: the invocation is pulled again
BuildPull ==
    /\ bd.pc \in {"y_chunk", "y_diff"}
    /\ \E chunk \in NextChunk(bd) : bd' = PassOn(bd, chunk, bd.ends)
    /\ UNCHANGED <<runVars, toolVars, rv, mem, pp>>

\* the caller closes the generator (close(), or dropping it): GeneratorExit is
\* raised at the yield it is suspended at
BuildClose ==
    /\ bd.pc \in InTry \cup {"created", "y_noplan", "y_final"}
    /\ bd' = IF bd.pc \in InTry THEN [Finally(bd) EXCEPT !.pc = "closed"]
             ELSE [bd EXCEPT !.pc = "closed"]
    /\ UNCHANGED <<runVars, toolVars, rv, mem, pp>>

InitBuild ==
    /\ RunIdle
    /\ apiKey \in BOOLEAN
    /\ useTracker = FALSE /\ tracker = 0
    /\ trackers = <<>> /\ registered = 0
    /\ \E e \in {Absent, Dir, File(<<"x">>)} :
         disk = [n \in Nodes |-> IF n = "d" THEN e ELSE Absent]
    /\ rv = RvIdle /\ mem = MemIdle /\ pp = PpIdle
    /\ \E pending \in BOOLEAN, auto \in BOOLEAN, target \in TargetDirs,
          ws \in {RelPath(<<>>), AbsPath(<<"ws">>), AbsPath(<<"home", "p">>)},
          tasks \in SeqsUpTo({"coder", "debug"}, MaxTasks) \ {<<>>} :
         bd = [pc |-> "created", pending |-> pending, had_plan |-> pending,
               auto_accept |-> auto, target_dir |-> target, tasks |-> tasks,
               cfgWs |-> ws, root_before |-> Workspace(ws),
               dir_before |-> (target \in Nodes /\ Exists(disk, target)),
               original_ws |-> Workspace(ws), t |-> 0, ran |-> <<>>,
               chunks |-> 0, ends |-> "", dones |-> <<>>, completed |-> <<>>]

NextBuild ==
    \/ BuildStart
    \/ BuildReturn
    \/ BuildNextTask
    \/ BuildInvoke
    \/ BuildPull
    \/ BuildClose

SpecBuild == InitBuild /\ [][NextBuild]_vars

(* Properties of a build *)

\* the generator has ended: it returned, an exception left it, or it was closed
BuildExited == bd.pc \in {"returned", "raised", "closed"}

\* the run was made on a pending plan and got as far as its first task
RanOnPlan == bd.had_plan /\ bd.t >= 1

\* C12: once a run of execute_build on a pending plan has exited, by the end
\* of its tasks, by an exception escaping a task or by the caller closing the
\* stream, no plan is pending any more.
C12_PlanClearedOnExit ==
    (BuildExited /\ RanOnPlan) => ~bd.pending

\* C13: for a non-root target the directory exists and is the workspace root
\* while the tasks run, created when it was missing; however the run ends, the
\* workspace root is again the one in effect before the call; for a root target
\* the workspace root never changes.
C13_WorkspaceRestored ==
    LET root == Workspace(bd.cfgWs)
    IN  /\ (BuildExited \/ bd.pc \in {"created", "y_noplan", "y_final"})
              => root = bd.root_before
        /\ IsRootTarget(bd.target_dir) => root = bd.root_before
        /\ (~IsRootTarget(bd.target_dir) /\ bd.pc \in InTry) =>
              /\ root = Under(bd.root_before, bd.target_dir)
              /\ Exists(disk, bd.target_dir)
              /\ ~bd.dir_before => IsDir(disk, bd.target_dir)

\* a run that created its target directory and worked in it was closed by its
\* caller during its second task, and the root is the former one again
C13_Witness ==
    /\ bd.pc = "closed"
    /\ bd.target_dir = "d" /\ ~bd.dir_before /\ IsDir(disk, "d")
    /\ bd.t = 2 /\ Len(bd.ran) = 2
    /\ Workspace(bd.cfgWs) = bd.root_before

-----------------------------------------------------------------------------
(* Further properties of one orchestrator invocation *)

\* the calls executed so far that are meant to change files
MutatingCalls == SelectSeq(allTcs, LAMBDA tc : tc.name \in MutatingTools)

DiffReadyEvents == SelectSeq(events, LAMBDA e : e.chunk_type = "diff_ready")

\* the invocation is tracked and its only file-changing call so far is one
\* file_write, which the tracker took
OneTrackedWrite ==
    LET ws == MutatingCalls
    IN  /\ useTracker
        /\ Len(ws) = 1
        /\ ws[1].name = "file_write"
        /\ ws[1].result.staged

\* C15: in a tracked invocation whose model calls file_write once, for a path
\* that is not on disk, the disk stays as it was, and once the invocation has
\* ended its events hold one "diffs ready" event, carrying exactly one FileDiff,
\* for that path and flagged is_new.
C15_NewFileStagedOnce ==
    OneTrackedWrite =>
        /\ disk \in InitDisks
        /\ (Ended /\ ~Exists(disk, MutatingCalls[1].arguments.path)) =>
              /\ Len(DiffReadyEvents) = 1
              /\ Len(DiffReadyEvents[1].diff_set) = 1
              /\ DiffReadyEvents[1].diff_set[1].is_new
              /\ DiffReadyEvents[1].diff_set[1].path = MutatingCalls[1].arguments.path

-----------------------------------------------------------------------------
(* Where an accepted diff lands: target = workspace / diff.path *)
(* (DiffReviewer._apply_diff, CLI._write_diff), on a file system of absolute     *)
(* locations. Directories are left implicit: mkdir(parents=True) succeeds.     *)

\* pathlib's workspace / path: an absolute path replaces the workspace
JoinPath(ws, p) == IF p.abs THEN p ELSE AbsPath(ws.parts \o p.parts)

RECURSIVE Collapse(_)
\* the location the system resolves a path to: each ".." leaves a directory
Collapse(names) ==
    IF names = <<>> THEN <<>>
    ELSE LET front == Collapse(SubSeq(names, 1, Len(names) - 1))
             name  == names[Len(names)]
         IN  IF name = ".."
             THEN (IF front = <<>> THEN <<>> ELSE SubSeq(front, 1, Len(front) - 1))
             ELSE Append(front, name)

Location(ws, p) == Collapse(JoinPath(ws, p).parts)

IsUnder(root, loc) ==
    /\ Len(loc) > Len(root)
    /\ SubSeq(loc, 1, Len(root)) = root

\* the paths a FileDiff may carry: the model's tool arguments, kept as given
DiffPaths == { RelPath(<<"a.txt">>), RelPath(<<"d", "b.txt">>),
               RelPath(<<"..", "o.txt">>), AbsPath(<<"etc", "o.txt">>) }

ReviewRoot == AbsPath(<<"ws">>)

FsLocations == { Location(ReviewRoot, p) : p \in DiffPaths }

\* _apply_diff / _write_diff on the file system
ApplyDiffAt(fs, ws, d) ==
    LET target == Location(ws, d.path)
    IN  IF d.is_delete
        THEN (IF fs[target].kind # "absent" THEN [fs EXCEPT ![target] = Absent] ELSE fs)
        ELSE [fs EXCEPT ![target] = File(d.new_content)]

\* the reviewer accepts diff i: it is applied
AcceptAt ==
    /\ rv.pc = "locate" /\ rv.i <= Len(rv.diffs)
    /\ disk' = ApplyDiffAt(disk, rv.root, rv.diffs[rv.i])
    /\ rv' = [rv EXCEPT !.i = @ + 1, !.accepted = Append(@, rv.diffs[rv.i])]
    /\ UNCHANGED <<runVars, trackers, registered, mem, pp, bd>>

\* the reviewer rejects or skips diff i
RejectAt ==
    /\ rv.pc = "locate" /\ rv.i <= Len(rv.diffs)
    /\ rv' = [rv EXCEPT !.i = @ + 1]
    /\ UNCHANGED <<runVars, toolVars, mem, pp, bd>>

InitLocate ==
    /\ RunOff
    /\ trackers = <<>> /\ registered = 0
    /\ \E there \in SUBSET {Location(ReviewRoot, p) : p \in DiffPaths} :
         disk = [l \in FsLocations |-> IF l \in there THEN File(<<"x">>) ELSE Absent]
    /\ \E ds \in SeqsUpTo({ FileDiff(p, <<>>, <<"n">>, FALSE, FALSE) : p \in DiffPaths }
                          \cup { FileDiff(p, <<>>, <<>>, FALSE, TRUE) : p \in DiffPaths },
                          MaxDiffs) :
         rv = [pc |-> "locate", root |-> ReviewRoot, diffs |-> ds, i |-> 1,
               accepted |-> <<>>, before |-> disk]
    /\ mem = MemIdle /\ pp = PpIdle /\ bd = BdIdle

NextLocate ==
    \/ AcceptAt
    \/ RejectAt

SpecLocate == InitLocate /\ [][NextLocate]_vars

\* C16: applying accepted diffs creates, changes and deletes only files under
\* the workspace root the reviewer was given, whatever the diffs' paths are.
C16_WritesStayUnderRoot ==
    rv.pc = "locate" =>
        \A l \in FsLocations : ~IsUnder(rv.root.parts, l) => disk[l] = rv.before[l]

\* C17: in an interactive review, the answer 'A' at a diff accepts it and all
\* the diffs after it, which are then applied without a prompt.
C17_AcceptAllOnA ==
    /\ (rv.pc = "prompt" /\ ~rv.accept_all) => Decision("A") = "accept_all"
    /\ (rv.pc = "prompt" /\ rv.accept_all) =>
          /\ ENABLED ReviewAutoNext
          /\ ~ENABLED ReviewReject

\* the content a successful file_write or file_patch call is to leave in its file
ContentAsked(tc, dk) ==
    LET a == tc.arguments
    IN  IF tc.name = "file_patch"
        THEN Replace1(ReadText(dk, a.path), a.old_str, a.new_str)
        ELSE IF a.mode = "append" THEN ReadText(dk, a.path) \o a.content
        ELSE a.content

\* C18: with no tracker registered, or the registered tracker inactive, a
\* file_write or file_patch call that succeeds has changed its file on disk
\* when it returns, and no diff set has grown.
C18_UntrackedWritesReachDisk ==
    [][ ( /\ pc = "dispatch"
          /\ curTc.name \in {"file_write", "file_patch"}
          /\ ~Intercepting(trackers, registered)
          /\ curTc'.result.success )
        => /\ trackers' = trackers
           /\ ~curTc'.result.staged
           /\ disk'[curTc.arguments.path] = File(ContentAsked(curTc, disk)) ]_vars

\* a patch has reached the disk past a registered tracker that is not active
C18_Witness ==
    /\ pc = "attach"
    /\ registered # 0 /\ ~Intercepting(trackers, registered)
    /\ curTc.name = "file_patch" /\ curTc.result.success
    /\ disk["a.txt"] = File(<<"y">>)
    /\ trackers[registered].pending = <<>>

\* C19: a tracked invocation that has ended has stopped its tracker and has
\* emitted, before the completion event, exactly one "diffs ready" event with
\* the tracker's diff set if that set is not empty, and none if it is; an
\* untracked invocation emits no "diffs ready" event.
C19_DiffsReadyIffStaged ==
    LET dr == DiffReadyEvents
    IN  /\ ~useTracker => dr = <<>>
        /\ (useTracker /\ pc = "returned") =>
              /\ ~trackers[tracker].active
              /\ Len(dr) = IF trackers[tracker].pending # <<>> THEN 1 ELSE 0
              /\ dr # <<>> =>
                    /\ dr[1].diff_set = trackers[tracker].pending
                    /\ events[Len(events) - 1].chunk_type = "diff_ready"

\* C20: every completion event, whether its error is set or not, carries all
\* the tool calls executed in the invocation, in the order of execution, each
\* with its result attached.
C20_CompletionCarriesCalls ==
    (events # <<>> /\ Last(events).chunk_type = "done") =>
        /\ Last(events).response.tool_calls = allTcs
        /\ \A k \in 1..Len(allTcs) : allTcs[k].attached

-----------------------------------------------------------------------------
(* The task loop of execute_build with every task's invocation run in full *)

\* tracking asked for when auto-accept is on
\* line 426: completed[-3:]; lines 464-466: writes[:3]
PriorShown == 3
WritesNamed == 3

\* lines 457-462: the paths of the calls that count as writes of the task
Writes(tcs) ==
    LET done == SelectSeq(tcs, LAMBDA tc : /\ tc.name \in {"file_write", "file_patch"}
                                           /\ tc.attached
                                           /\ tc.result.success)
    IN  [k \in 1..Len(done) |-> done[k].arguments.path]

\* lines 463-466: the summary entry of a task
Summary(t, response) ==
    [task |-> t,
     writes |-> SubSeq(Writes(response.tool_calls), 1,
                       IF Len(Writes(response.tool_calls)) < WritesNamed
                       THEN Len(Writes(response.tool_calls)) ELSE WritesNamed)]

TaskInvoke_TrackWhenAuto ==
    /\ bd.pc = "loop"
    /\ bd.t < bd.n
    /\ bd' = [bd EXCEPT !.pc = "task", !.t = @ + 1, !.trackers_before = Len(trackers),
                        !.prior = LastN(bd.completed, PriorShown)]
    /\ pc' = "idle"
    /\ useTracker' = bd.auto_accept
    /\ tracker' = 0
    /\ iter' = 0 /\ msgs' = <<>> /\ events' = <<>>
    /\ resp' = Raise("") /\ idx' = 0 /\ curTc' = NoTc /\ allTcs' = <<>>
    /\ parts' = <<>> /\ sq' = Stream(<<>>, FALSE) /\ finalText' = <<>> /\ excText' = ""
    /\ UNCHANGED <<apiKey, toolVars, rv, mem, pp>>

\* lines 422-451: the next task's invocation is created; tracking is asked for
\* unless auto-accept is on, and no tracker is handed over
TaskInvoke ==
    /\ bd.pc = "loop"
    /\ bd.t < bd.n
    /\ bd' = [bd EXCEPT !.pc = "task", !.t = @ + 1, !.trackers_before = Len(trackers),
                        !.prior = LastN(bd.completed, PriorShown)]
    /\ pc' = "idle"
    /\ useTracker' = ~bd.auto_accept
    /\ tracker' = 0
    /\ iter' = 0 /\ msgs' = <<>> /\ events' = <<>>
    /\ resp' = Raise("") /\ idx' = 0 /\ curTc' = NoTc /\ allTcs' = <<>>
    /\ parts' = <<>> /\ sq' = Stream(<<>>, FALSE) /\ finalText' = <<>> /\ excText' = ""
    /\ UNCHANGED <<apiKey, toolVars, rv, mem, pp>>

\* a summary entry for every task, whatever its completion
TaskDone_AlwaysSummarises ==
    /\ bd.pc = "task"
    /\ pc = "returned"
    /\ bd' = [bd EXCEPT !.pc = "loop",
                        !.completed = Append(@, Summary(bd.t, Last(events).response))]
    /\ UNCHANGED <<runVars, toolVars, rv, mem, pp>>

\* lines 452-476: the invocation is used up; its completion event was passed on
TaskDone ==
    /\ bd.pc = "task"
    /\ pc = "returned"
    /\ bd' = [bd EXCEPT !.pc = "loop",
                        !.completed = IF Last(events).response.ok
                                      THEN Append(@, Summary(bd.t, Last(events).response))
                                      ELSE @]
    /\ UNCHANGED <<runVars, toolVars, rv, mem, pp>>

\* an exception of the invocation leaves the loop and execute_build
TaskRaised ==
    /\ bd.pc = "task"
    /\ pc = "raised"
    /\ bd' = [bd EXCEPT !.pc = "raised"]
    /\ UNCHANGED <<runVars, toolVars, rv, mem, pp>>

\* lines 477-487: the tasks are done
TasksEnd ==
    /\ bd.pc = "loop"
    /\ bd.t = bd.n
    /\ bd' = [bd EXCEPT !.pc = "final"]
    /\ UNCHANGED <<runVars, toolVars, rv, mem, pp>>

InitTasks ==
    /\ pc = "unstarted" /\ iter = 0 /\ msgs = <<>> /\ events = <<>>
    /\ resp = Raise("") /\ idx = 0 /\ curTc = NoTc /\ allTcs = <<>>
    /\ parts = <<>> /\ sq = Stream(<<>>, FALSE) /\ finalText = <<>> /\ excText = ""
    /\ apiKey \in BOOLEAN
    /\ useTracker = FALSE /\ tracker = 0
    /\ trackers = <<>> /\ registered = 0
    /\ disk = [n \in Nodes |-> IF n = "a.txt" THEN File(<<"x">>) ELSE Absent]
    /\ rv = RvIdle /\ mem = MemIdle /\ pp = PpIdle
    /\ \E auto \in BOOLEAN, n \in 1..MaxTasks :
         \E v \in 1..n :
           bd = [pc |-> "loop", auto_accept |-> auto, n |-> n, t |-> 0, varied |-> v,
                 trackers_before |-> 0, completed |-> <<>>, prior |-> <<>>]

NextTasks ==
    \/ TaskInvoke
    \/ Next
    \/ TaskDone
    \/ TaskRaised
    \/ TasksEnd

SpecTasks == InitTasks /\ [][NextTasks]_vars

(* Properties of the task loop *)

\* the invocation of the current task is inside its loop
TaskLooping ==
    /\ bd.pc = "task"
    /\ pc \in {"request", "emit_call", "dispatch", "attach", "open_stream", "stream"}

\* the successful file_write or file_patch call being dispatched is staged:
\* the disk stays and one diff with the asked content joins diff set k
StagedIn(k) ==
    /\ curTc'.result.staged
    /\ disk' = disk
    /\ \E d \in {Last(trackers'[k].pending)} :
         /\ trackers' = [trackers EXCEPT ![k].pending = Append(@, d)]
         /\ d.path = curTc.arguments.path
         /\ d.new_content = ContentAsked(curTc, disk)

ActiveTrackers == { k \in 1..Len(trackers) : trackers[k].active }

\* C22: at every moment at most one of the trackers created so far is active,
\* and a write can be intercepted by that one only.
C22_OneActiveTracker ==
    /\ Cardinality(ActiveTrackers) <= 1
    /\ Intercepting(trackers, registered) => ActiveTrackers = {registered}

-----------------------------------------------------------------------------
(* A review in a workspace where a diff cannot be applied *)

\* "d" is a file, so that target.parent.mkdir fails for "d/b.txt"
BlockedDisks ==
    { [n \in Nodes |-> CASE n = "a.txt"   -> a
                         [] n = "d"       -> File(<<"x">>)
                         [] n = "d/b.txt" -> Absent] : a \in {Absent, File(<<"x">>)} }

InitReviewBlocked ==
    /\ RunOff
    /\ trackers = <<>> /\ registered = 0
    /\ disk \in BlockedDisks
    /\ \E ds \in SeqsUpTo(ReviewDiffs, MaxDiffs), who \in {"DiffReviewer", "CLI"},
          auto \in BOOLEAN :
          /\ who = "CLI" => ~auto
          /\ rv = [RvIdle EXCEPT !.reviewer = who, !.auto_accept = auto,
                                 !.diffs = ds, !.before = disk]
    /\ mem = MemIdle /\ pp = PpIdle /\ bd = BdIdle

SpecReviewBlocked == InitReviewBlocked /\ [][NextReview]_vars

\* the review is over: it returned, or an exception left it
ReviewStopped == rv.pc \in {"done", "raised"}

\* C23: a diff that cannot be applied fails alone: the review goes on to the
\* diffs after it, so a review that is over has been through its whole set,
\* in interactive review as in auto-accept and accept-all application.
C23_ApplyFailureIsLocal ==
    (ReviewStopped /\ rv.diffs # <<>>) =>
        /\ rv.pc = "done"
        /\ rv.i = Len(rv.diffs)

-----------------------------------------------------------------------------
(* Calls that do not fit a tool *)

\* the arguments fit the tool's parameters: they bind, and the content is text
Fits(tc) ==
    /\ tc.name \in ToolNames
    /\ Binds(tc.name, tc.arguments)
    /\ "content" \in DOMAIN tc.arguments => tc.arguments.content # Null

\* C24: dispatch of a call whose name is not a registered operation, or whose
\* arguments do not fit the operation's parameters, raises nothing and returns
\* a failed result with an error text, and the invocation that issued the call
\* is not ended by it.
C24_MisfitCallsFailCleanly ==
    [][ (pc = "dispatch" /\ ~Fits(curTc)) =>
           /\ pc' = "attach"
           /\ ~curTc'.result.success
           /\ curTc'.result.error # "" ]_vars

-----------------------------------------------------------------------------
(* parse_build_plan on texts whose label lines are missing or repeated *)

\* how often a label line may occur in a text
MaxRepeats == 2

RECURSIVE RenderLabels(_, _)
\* one line per value, each line the label and its value
RenderLabels(kw, values) ==
    IF values = <<>> THEN <<>>
    ELSE kw \o <<" ">> \o Head(values) \o <<"\n">> \o RenderLabels(kw, Tail(values))

\* the header lines (the first may give no name), the target and stack lines,
\* then the task lines
RenderLabelled(src) ==
    RenderLabels(KwBuildPlan, src.names) \o RenderLabels(KwTargetDir, src.targets)
    \o RenderLabels(KwStack, src.stacks) \o Tail(RenderLines(src.lines))

InitParseLabels ==
    /\ RunOff /\ ToolsIdle
    /\ rv = RvIdle /\ mem = MemIdle /\ bd = BdIdle
    /\ \E names \in SeqsUpTo(PlanNames \cup {<<>>}, MaxRepeats) \ {<<>>},
          targets \in SeqsUpTo(PlanTargets, MaxRepeats),
          stacks \in SeqsUpTo(PlanStacks, MaxRepeats),
          agent \in LineAgents :
         LET line == [agent |-> agent, label |-> <<"C", "1">>,
                      description |-> <<"d", "o", " ", "X">>]
             src == [names |-> names, targets |-> targets, stacks |-> stacks,
                     lines |-> <<line>>]
         IN  pp = [pc |-> "text", src |-> src, text |-> RenderLabelled(src),
                   plan |-> NoPlan]

SpecParseLabels == InitParseLabels /\ [][NextParse]_vars

Unspecified == <<"u", "n", "s", "p", "e", "c", "i", "f", "i", "e", "d">>

\* the first of the values given, or the default when there is none
FirstOr(values, default) ==
    IF values = <<>> \/ Head(values) = <<>> THEN default ELSE Head(values)

\* C25: for a text with a header and a task, each of name, target and stack is
\* the value of the first line carrying its label, and where no value is given
\* the name is "project", the target "." and the stack "unspecified".
C25_DefaultsForMissingLabels ==
    pp.pc = "parsed" =>
        /\ ~pp.plan.none
        /\ pp.plan.name = FirstOr(pp.src.names, DefaultName)
        /\ pp.plan.target_dir = FirstOr(pp.src.targets, DefaultTarget)
        /\ pp.plan.stack = FirstOr(pp.src.stacks, Unspecified)

-----------------------------------------------------------------------------
(* The agent filter of parse_build_plan *)

\* the task lines of the text the pattern matches
MatchedLines(src) == SelectSeq(src.lines, LAMBDA l : ShortLabel(l.label))

\* C26: of the task lines matched, those naming a registered agent become the
\* plan's tasks, in the order of the text, and the others are dropped without
\* an error; every task of a plan names a registered agent.
C26_OnlyRegisteredAgents ==
    (pp.pc = "parsed" /\ pp.src.header) =>
        LET kept == SelectSeq(MatchedLines(pp.src), LAMBDA l : Lower(l.agent) \in AGENTS)
        IN  IF kept = <<>> THEN pp.plan = NoPlan
            ELSE /\ ~pp.plan.none
                 /\ pp.plan.tasks =
                       [k \in DOMAIN kept |->
                           BuildTask(Lower(kept[k].agent), kept[k].label, kept[k].description)]
                 /\ \A k \in DOMAIN pp.plan.tasks : pp.plan.tasks[k].agent \in AGENTS

\* a text whose first task line names an agent that is not registered and
\* whose second names one that is has parsed to a plan of the second alone
C26_Witness ==
    /\ pp.pc = "parsed" /\ pp.src.header
    /\ Len(pp.src.lines) = 2
    /\ pp.src.lines[1].agent = <<"g", "h", "o", "s", "t">>
    /\ pp.src.lines[1].label = <<"C", "1">>
    /\ ~pp.plan.none
    /\ Len(pp.plan.tasks) = 1
    /\ pp.plan.tasks[1].agent = <<"d", "e", "b", "u", "g">>

-----------------------------------------------------------------------------
(* ZenCore.stream: one chat turn *)

UserMsg         == [role |-> "user",      content |-> <<"q">>]
AssistantText(t) == [role |-> "assistant", content |-> t]

\* lines 359-364: the user's input is remembered and the chat agent's
\* invocation created, untracked
ChatStart ==
    /\ bd.pc = "created"
    /\ bd' = [bd EXCEPT !.pc = "turn"]
    /\ mem' = [mem EXCEPT !.msgs = MemoryAdd(mem.msgs, UserMsg, mem.limit),
                          !.added = Append(@, UserMsg), !.n = @ + 1, !.last = "add"]
    /\ pc' = "idle"
    /\ UNCHANGED <<apiKey, useTracker, tracker, iter, msgs, events, resp, idx, curTc,
                   allTcs, parts, sq, finalText, excText, toolVars, rv, pp>>

\* lines 365-373: the completion event; an answer without error is remembered
\* and parsed, and a plan found becomes the pending plan
ChatDone ==
    /\ bd.pc = "turn"
    /\ pc = "returned"
    /\ LET response == Last(events).response
           plan == parse_build_plan(response.text)
       IN  IF response.ok
           THEN /\ mem' = [mem EXCEPT
                              !.msgs = MemoryAdd(mem.msgs, AssistantText(response.text), mem.limit),
                              !.added = Append(@, AssistantText(response.text)),
                              !.n = @ + 1, !.last = "add"]
                /\ bd' = [bd EXCEPT !.pc = "over",
                                    !.pending = IF plan.none THEN @ ELSE TRUE,
                                    !.plan = IF plan.none THEN @ ELSE plan]
           ELSE /\ mem' = mem
                /\ bd' = [bd EXCEPT !.pc = "over"]
    /\ UNCHANGED <<runVars, toolVars, rv, pp>>

\* an exception of the invocation leaves stream
ChatRaised ==
    /\ bd.pc = "turn"
    /\ pc = "raised"
    /\ bd' = [bd EXCEPT !.pc = "raised"]
    /\ UNCHANGED <<runVars, toolVars, rv, mem, pp>>

InitChat ==
    /\ pc = "unstarted" /\ iter = 0 /\ msgs = <<>> /\ events = <<>>
    /\ resp = Raise("") /\ idx = 0 /\ curTc = NoTc /\ allTcs = <<>>
    /\ parts = <<>> /\ sq = Stream(<<>>, FALSE) /\ finalText = <<>> /\ excText = ""
    /\ apiKey \in BOOLEAN
    /\ useTracker = FALSE /\ tracker = 0
    /\ trackers = <<>> /\ registered = 0
    /\ disk \in InitDisks
    /\ rv = RvIdle /\ pp = PpIdle
    /\ mem = [MemIdle EXCEPT !.limit = MaxLimit, !.last = "init"]
    /\ \E pending \in BOOLEAN :
         bd = [pc |-> "created", pending |-> pending, pending_before |-> pending,
               plan |-> NoPlan]

NextChat ==
    \/ ChatStart
    \/ Next
    \/ ChatDone
    \/ ChatRaised

SpecChat == InitChat /\ [][NextChat]_vars

(* Properties of a chat turn *)

ChatOver == bd.pc \in {"over", "raised"}

\* the turn's answer: the text the model gave, streamed or not
AnswerHasHeader == Contains(finalText, KwBuildPlan)

\* no tool call was issued in the turn
NoToolCalls == SelectSeq(events, LAMBDA e : e.chunk_type = "tool_call") = <<>>

\* C27: a chat turn without tool calls whose answer has no plan header yields
\* exactly one completion event, with a text that is not empty and no tool
\* calls, and the pending plan is as it was before the turn.
C27_PlainChatTurn ==
    (ChatOver /\ NoToolCalls /\ ~AnswerHasHeader) =>
        LET dones == DoneEvents
        IN  /\ Len(dones) = 1
            /\ dones[1].response.text # <<>>
            /\ dones[1].response.tool_calls = <<>>
            /\ bd.pending = bd.pending_before

-----------------------------------------------------------------------------
(* The iteration cap *)

\* the answers of the invocation that asked for tools
ToolTurns == Len(SelectSeq(msgs, LAMBDA m : m.role = "assistant"))

\* C28: when all _MAX_ITERS requests were answered with tool calls, no further
\* request is made and the invocation ends with a completion event whose error
\* is not set and whose text is empty, as a successful completion would.
C28_CapIsNotAnError ==
    /\ (ToolTurns = _MAX_ITERS /\ pc = "request") =>
          /\ ~ENABLED Request
          /\ ENABLED LoopExhausted
    /\ (ToolTurns = _MAX_ITERS /\ pc = "returned") =>
          /\ EndsWithOneCompletion
          /\ Last(events).response.error = ""
          /\ Last(events).response.ok
          /\ Last(events).response.text = <<>>

\* an invocation whose every answer asked for a tool has returned, with all
\* its calls in the completion event
C28_Witness ==
    /\ pc = "returned"
    /\ ToolTurns = _MAX_ITERS
    /\ Len(allTcs) >= _MAX_ITERS
    /\ Last(events).response.ok
    /\ Last(events).response.tool_calls = allTcs

-----------------------------------------------------------------------------
(* The final text *)

RECURSIVE Deltas(_)
\* the fragments of the text-fragment events, in the order of emission
Deltas(es) ==
    IF es = <<>> THEN <<>>
    ELSE (IF Head(es).chunk_type = "delta" THEN <<Head(es).delta>> ELSE <<>>)
         \o Deltas(Tail(es))

\* C29: the text of a completion event without error is the concatenation, in
\* the order of emission, of the fragments of the text-fragment events of the
\* invocation, also when the stream broke and the non-streamed answer was used.
C29_TextIsJoinedDeltas ==
    (pc = "returned" /\ Last(events).response.ok) =>
        Last(events).response.text = Join(Deltas(events))

-----------------------------------------------------------------------------
(* The order of a diff set *)

\* the call being dispatched reaches intercept_write of the registered tracker
WriteIntercepted ==
    /\ pc = "dispatch"
    /\ Intercepting(trackers, registered)
    /\ Fits(curTc)
    /\ \/ curTc.name = "file_write"
       \/ /\ curTc.name = "file_patch"
          /\ disk[curTc.arguments.path].kind = "file"
          /\ FindFirst(ReadText(disk, curTc.arguments.path), curTc.arguments.old_str) # 0

\* q is p with entries added at its end
Extends(q, p) == Len(q) >= Len(p) /\ SubSeq(q, 1, Len(p)) = p

\* C30: an intercepted write or patch appends exactly one FileDiff to the end
\* of the active tracker's diff set, its old_content the content on disk at
\* that moment; entries already in a diff set are never changed or removed, so
\* a set lists its writes in the order issued, one entry per write.
C30_DiffsInWriteOrder ==
    [][ /\ \A k \in DOMAIN trackers : Extends(trackers'[k].pending, trackers[k].pending)
        /\ WriteIntercepted =>
              LET path == curTc.arguments.path
                  d == FileDiff(path, ReadText(disk, path), ContentAsked(curTc, disk),
                                ~Exists(disk, path), FALSE)
              IN  trackers' = [trackers EXCEPT ![registered].pending = Append(@, d)] ]_vars

\* two writes to the same file were staged one after the other: two entries,
\* both with the content on disk as old_content
C30_Witness ==
    /\ pc = "attach"
    /\ registered # 0
    /\ Len(trackers[registered].pending) = 2
    /\ trackers[registered].pending[1].path = "a.txt"
    /\ trackers[registered].pending[2].path = "a.txt"
    /\ trackers[registered].pending[1].new_content = <<"n">>
    /\ trackers[registered].pending[2].old_content = ReadText(disk, "a.txt")
    /\ trackers[registered].pending[2].new_content = ReadText(disk, "a.txt") \o <<"n">>

-----------------------------------------------------------------------------
(* The rolling summary of a build *)

\* the task's invocation is handed back to the task loop
TaskHandedBack == bd.pc = "task" /\ bd'.pc = "loop"

\* the rolling summary gains one entry for the task, naming only paths of
\* write or patch calls of the task that returned a successful result
OneEntryAdded ==
    /\ Len(bd'.completed) = Len(bd.completed) + 1
    /\ SubSeq(bd'.completed, 1, Len(bd.completed)) = bd.completed
    /\ Last(bd'.completed).task = bd.t
    /\ \A k \in DOMAIN Last(bd'.completed).writes :
         \E j \in DOMAIN allTcs :
           /\ allTcs[j].name \in {"file_write", "file_patch"}
           /\ allTcs[j].attached /\ allTcs[j].result.success
           /\ allTcs[j].arguments.path = Last(bd'.completed).writes[k]

-----------------------------------------------------------------------------
(* The tool list of an agent *)

\* agents/__init__.py line 21: of the operations modelled, the chat agent's
\* tools hold file_read only; lines 4-10: the coder's hold them all
Permitted(agent) == IF agent = "chat" THEN {"file_read"} ELSE ToolNames

\* the call being dispatched in a chat turn names a registered operation that
\* is not among the chat agent's tools
UnlistedCall ==
    /\ bd.pc = "turn"
    /\ pc = "dispatch"
    /\ curTc.name \in ToolNames \ Permitted("chat")

\* C32: during an invocation for an agent a call naming a registered operation
\* outside the agent's tool list is not run: no file and no diff set changes
\* and the call gets no successful result.
C32_OnlyPermittedToolsRun ==
    [][ UnlistedCall => /\ disk' = disk
                        /\ trackers' = trackers
                        /\ ~curTc'.result.success ]_vars

-----------------------------------------------------------------------------
(* ZenCore.direct_build: plan, then execute *)

\* the prompt handed to direct_build
BuildPrompt == <<"p">>

\* lines 514-522: the plan used when the planning text holds none
DefaultPlan ==
    BuildPlan(BuildPrompt, <<".">>, <<"a", "u", "t", "o">>,
              << BuildTask(<<"a", "r", "c", "h", "i", "t", "e", "c", "t">>, <<"A", "1">>,
                           <<"S", "c", "a", "f", "f", "o", "l", "d">>),
                 BuildTask(<<"c", "o", "d", "e", "r">>, <<"C", "1">>,
                           <<"I", "m", "p", "l", "e", "m", "e", "n", "t">>),
                 BuildTask(<<"d", "e", "b", "u", "g">>, <<"D", "1">>,
                           <<"R", "u", "n">>) >>)

\* lines 512-513: the plan of a text, the default plan when it has none
PlanOr(text) == IF parse_build_plan(text).none THEN DefaultPlan ELSE parse_build_plan(text)

\* lines 493-507: the planning invocation for the chat agent is created, untracked
DirectStart ==
    /\ bd.pc = "direct"
    /\ bd' = [bd EXCEPT !.pc = "planning"]
    /\ pc' = "idle"
    /\ UNCHANGED <<apiKey, useTracker, tracker, iter, msgs, events, resp, idx, curTc,
                   allTcs, parts, sq, finalText, excText, toolVars, rv, mem, pp>>

\* lines 507-528: the planning invocation is used up; the text collected from
\* its fragment events is parsed, the plan is made the pending plan and
\* execute_build is created for it
DirectPlanned ==
    /\ bd.pc = "planning"
    /\ pc = "returned"
    /\ LET plan_text == Join(Deltas(events))
           plan == PlanOr(plan_text)
       IN  bd' = [pc |-> "created", pending |-> TRUE, had_plan |-> TRUE,
                  auto_accept |-> bd.auto_accept,
                  target_dir |-> IF plan.target_dir = <<".">> THEN "." ELSE "d",
                  tasks |-> plan.tasks, plan |-> plan,
                  answer |-> Last(events).response.text,
                  cfgWs |-> bd.cfgWs, root_before |-> Workspace(bd.cfgWs),
                  dir_before |-> FALSE,
                  original_ws |-> Workspace(bd.cfgWs), t |-> 0, ran |-> <<>>,
                  chunks |-> 0, ends |-> "", dones |-> <<>>, completed |-> <<>>]
    /\ pc' = "unstarted" /\ iter' = 0 /\ msgs' = <<>> /\ events' = <<>>
    /\ resp' = Raise("") /\ idx' = 0 /\ curTc' = NoTc /\ allTcs' = <<>>
    /\ parts' = <<>> /\ sq' = Stream(<<>>, FALSE) /\ finalText' = <<>> /\ excText' = ""
    /\ UNCHANGED <<apiKey, useTracker, tracker, toolVars, rv, mem, pp>>

\* an exception of the planning invocation leaves direct_build
DirectRaised ==
    /\ bd.pc = "planning"
    /\ pc = "raised"
    /\ bd' = [bd EXCEPT !.pc = "unplanned"]
    /\ UNCHANGED <<runVars, toolVars, rv, mem, pp>>

InitDirect ==
    /\ pc = "unstarted" /\ iter = 0 /\ msgs = <<>> /\ events = <<>>
    /\ resp = Raise("") /\ idx = 0 /\ curTc = NoTc /\ allTcs = <<>>
    /\ parts = <<>> /\ sq = Stream(<<>>, FALSE) /\ finalText = <<>> /\ excText = ""
    /\ apiKey \in BOOLEAN
    /\ useTracker = FALSE /\ tracker = 0
    /\ trackers = <<>> /\ registered = 0
    /\ disk \in InitDisks
    /\ rv = RvIdle /\ mem = MemIdle /\ pp = PpIdle
    /\ \E auto \in BOOLEAN :
         bd = [pc |-> "direct", auto_accept |-> auto, cfgWs |-> AbsPath(<<"ws">>)]

NextDirect ==
    \/ DirectStart
    \/ Next
    \/ DirectPlanned
    \/ DirectRaised
    \/ NextBuild

SpecDirect == InitDirect /\ [][NextDirect]_vars

(* Properties of direct_build *)

\* the planning of direct_build is over and execute_build was created
Planned == "answer" \in DOMAIN bd

\* C33: direct_build executes the plan parsed from the planning answer when
\* the answer holds one and the default plan of three tasks (architect,
\* coder, debug) otherwise: that plan is made the pending plan, and the tasks
\* run are its tasks, from the first on and in order.
C33_PlanOfTheAnswerIsExecuted ==
    /\ bd.pc # "unplanned"
    /\ Planned =>
         /\ bd.plan = PlanOr(bd.answer)
         /\ bd.tasks = bd.plan.tasks
         /\ bd.pc = "created" => bd.pending
         /\ bd.ran = [k \in 1..Len(bd.ran) |-> k]

-----------------------------------------------------------------------------
(* CLI.render_chunks driving execute_build *)

\* one next() of the generator of execute_build
BuildStep ==
    \/ BuildStart
    \/ BuildReturn
    \/ BuildNextTask
    \/ BuildInvoke
    \/ BuildPull

\* CLI.py line 367: the for statement asks the generator for its next chunk;
\* it does so until a chunk of type "done" came
RenderPull ==
    /\ bd.pc # "y_done"
    /\ BuildStep

\* CLI.py lines 397-398: a "done" chunk breaks the for statement; the generator
\* is dropped where it is suspended and closed, its finally clause runs
RenderBreak ==
    /\ bd.pc = "y_done"
    /\ bd' = [Finally(bd) EXCEPT !.pc = "closed"]
    /\ UNCHANGED <<runVars, toolVars, rv, mem, pp>>

\* CLI.py lines 521-527: _exec_build drives the generator only with a plan pending
InitCli ==
    /\ InitBuild
    /\ bd.pending

NextCli ==
    \/ RenderPull
    \/ RenderBreak

SpecCli == InitCli /\ [][NextCli]_vars

\* C34: when render_chunks has consumed a build, every task of the plan was
\* run to its completion event in plan order, the closing BUILD COMPLETE
\* status was reached and the pending plan is cleared.
C34_CliRunsEveryTask ==
    BuildExited =>
        /\ bd.pc = "returned"
        /\ bd.ran = [k \in 1..Len(bd.tasks) |-> k]
        /\ Len(bd.dones) = Len(bd.tasks)
        /\ ~bd.pending

-----------------------------------------------------------------------------
(* Two invocations of _run_agent made one after the other *)

\* the generator is suspended at a yield inside the loop: after a tool_call
\* or tool_result event, or after a fragment of the streamed text
SuspendedInLoop ==
    \/ pc \in {"dispatch", "attach"}
    \/ pc = "stream" /\ events # <<>> /\ Last(events).chunk_type = "delta"

\* the consumer closes or drops the generator there, or is interrupted while
\* it reads: GeneratorExit is raised at the yield; it is no Exception, so the
\* except clause of line 315 does not run, and there is no finally clause
RunClose ==
    /\ bd.pc = "first"
    /\ SuspendedInLoop
    /\ pc' = "closed"
    /\ UNCHANGED <<apiKey, useTracker, tracker, iter, msgs, events, resp, idx, curTc,
                   allTcs, parts, sq, finalText, excText, toolVars, rv, mem, pp, bd>>

\* the first invocation is over for its consumer
FirstOver == bd.pc = "first" /\ pc \in {"returned", "raised", "closed"}

\* the second invocation is created: untracked (lines 545-548, autonomous_debug;
\* an auto-accept task), or tracked with the tracker object of the first
FollowUp ==
    /\ FirstOver
    /\ bd' = [bd EXCEPT !.pc = "second", !.t = 2,
                        !.supplied = (bd.second = "reuse" /\ tracker # 0),
                        !.staged_before = IF tracker = 0 THEN <<>>
                                          ELSE trackers[tracker].pending]
    /\ useTracker' = (bd.second = "reuse")
    /\ tracker' = IF bd.second = "reuse" THEN tracker ELSE 0
    /\ pc' = "idle"
    /\ iter' = 0 /\ msgs' = <<>> /\ events' = <<>>
    /\ resp' = Raise("") /\ idx' = 0 /\ curTc' = NoTc /\ allTcs' = <<>>
    /\ parts' = <<>> /\ sq' = Stream(<<>>, FALSE) /\ finalText' = <<>> /\ excText' = ""
    /\ UNCHANGED <<apiKey, toolVars, rv, mem, pp>>

InitFollow ==
    /\ RunIdle
    /\ apiKey \in BOOLEAN
    /\ useTracker = TRUE
    /\ \/ trackers = <<>> /\ tracker = 0
       \/ \E t \in SuppliedTrackers : trackers = <<t>> /\ tracker = 1
    /\ registered = 0
    /\ disk \in InitDisks
    /\ rv = RvIdle /\ mem = MemIdle /\ pp = PpIdle
    /\ \E v \in {1, 2}, second \in {"untracked", "reuse"} :
         bd = [pc |-> "first", t |-> 1, varied |-> v, second |-> second,
               supplied |-> (tracker # 0), staged_before |-> <<>>]

NextFollow ==
    \/ Next
    \/ RunClose
    \/ FollowUp

SpecFollow == InitFollow /\ [][NextFollow]_vars

(* Properties of a run that follows a tracked one *)

\* no tracked invocation is in progress: the tracked one is over, or the
\* untracked one that follows it is running
NoTrackedRun == FirstOver \/ (bd.pc = "second" /\ bd.second = "untracked")

\* C35: whenever no tracked invocation is in progress (the tracked one
\* completed, ended with an error completion, or was closed before its
\* completion event) no active tracker is registered in the tool layer, and
\* no call of the untracked invocation that follows gets a staged result.
C35_NoTrackerLeftRegistered ==
    NoTrackedRun =>
        /\ ~Intercepting(trackers, registered)
        /\ bd.pc = "second" =>
              \A k \in DOMAIN allTcs : allTcs[k].attached => ~allTcs[k].result.staged

-----------------------------------------------------------------------------
(* The same calls with and without a tracker *)

\* the longest sequence of calls replayed
MaxCalls == 2

\* file_write in both modes and file_patch
WriteCalls == {W1, WA, W2, P1}

\* the next call is dispatched twice: under the started tracker, and on a
\* disk of its own (bd.plain) with no tracker registered
ReplayCall ==
    /\ bd.pc = "calls"
    /\ bd.k < Len(bd.calls)
    /\ LET c == bd.calls[bd.k + 1]
           o == Dispatch(disk, trackers, registered, c.name, ParseArgs(c.args))
           u == Dispatch(bd.plain, <<>>, 0, c.name, ParseArgs(c.args))
       IN  /\ disk' = o.disk
           /\ trackers' = o.trackers
           /\ bd' = [bd EXCEPT !.k = @ + 1, !.plain = u.disk]
    /\ UNCHANGED <<runVars, registered, rv, mem, pp>>

\* core.py lines 331-334: the calls are done, the tracker is stopped
ReplayStop ==
    /\ bd.pc = "calls"
    /\ bd.k = Len(bd.calls)
    /\ trackers' = [trackers EXCEPT ![1] = TrackerStop(@)]
    /\ registered' = 0
    /\ bd' = [bd EXCEPT !.pc = "accept"]
    /\ UNCHANGED <<runVars, disk, rv, mem, pp>>

\* engine.py lines 289-301: the next diff of the set is accepted and applied
ReplayAccept ==
    /\ bd.pc = "accept"
    /\ bd.i < Len(trackers[1].pending)
    /\ disk' = ApplyDiff(disk, trackers[1].pending[bd.i + 1]).disk
    /\ bd' = [bd EXCEPT !.i = @ + 1]
    /\ UNCHANGED <<runVars, trackers, registered, rv, mem, pp>>

InitReplay ==
    /\ RunOff
    /\ trackers = <<TrackerStart(NewTracker)>> /\ registered = 1
    /\ disk \in InitDisks
    /\ rv = RvIdle /\ mem = MemIdle /\ pp = PpIdle
    /\ \E cs \in SeqsUpTo(WriteCalls, MaxCalls) \ {<<>>} :
         bd = [pc |-> "calls", calls |-> cs, k |-> 0, plain |-> disk, i |-> 0]

NextReplay ==
    \/ ReplayCall
    \/ ReplayStop
    \/ ReplayAccept

SpecReplay == InitReplay /\ [][NextReplay]_vars

\* every diff of the set was accepted
AllAccepted == bd.pc = "accept" /\ bd.i = Len(trackers[1].pending)

\* C36: after the calls of a tracked invocation, accepting every diff of the
\* diff set in order leaves the disk as the same calls leave it when no
\* tracker is active.
C36_AcceptAllEqualsUntracked ==
    AllAccepted => disk = bd.plain

-----------------------------------------------------------------------------
(* Delivery of the staged writes *)

\* diff j of the invocation's tracker is in the diff set of a "diffs ready" event
Delivered(j) ==
    \E e \in DOMAIN events :
       /\ events[e].chunk_type = "diff_ready"
       /\ j \in DOMAIN events[e].diff_set
       /\ events[e].diff_set[j] = trackers[tracker].pending[j]

\* C37: every write intercepted during a tracked invocation is in the diff
\* set of a "diffs ready" event of that invocation when it has ended, also
\* when it ended with an error completion after the write was staged.
C37_StagedWritesAreDelivered ==
    (pc = "returned" /\ useTracker /\ tracker # 0) =>
        \A j \in DOMAIN trackers[tracker].pending : Delivered(j)

-----------------------------------------------------------------------------
(* Memory after a chat turn *)

\* the log before the turn: a chat turn of SpecChat starts on an empty Memory
MemoryBefore == <<>>

\* C38: stream() records a turn in Memory only when the turn completes: after
\* a turn whose completion has no error Memory ends with the user message
\* followed by the assistant's reply, and after a turn that ended with an
\* error completion Memory is what it was before the turn.
C38_MemoryOnlyOnCompletedTurn ==
    bd.pc = "over" =>
        IF Last(events).response.ok
        THEN mem.msgs = MemoryBefore \o <<UserMsg, AssistantText(Last(events).response.text)>>
        ELSE mem.msgs = MemoryBefore

-----------------------------------------------------------------------------
(* A tracker handed to _run_agent *)

\* the invocation under way was given its tracker by the caller and has
\* completed without error
SuppliedRunDone ==
    /\ bd.supplied /\ useTracker
    /\ pc = "returned"
    /\ Last(events).response.ok

\* the "diffs ready" events of the invocation
ReadyEvents == SelectSeq(events, LAMBDA e : e.chunk_type = "diff_ready")

\* C39: an invocation with tracking asked for and a tracker supplied has its
\* writes intercepted by that tracker, and its "diffs ready" event carries
\* exactly the diffs of its own successful file_write and file_patch calls,
\* in order, also when the tracker served an earlier invocation; nothing was
\* written to disk by it.
C39_SuppliedTrackerStagesTheRun ==
    SuppliedRunDone =>
        LET writes == Writes(allTcs)
        IN  /\ \A k \in DOMAIN allTcs :
                 (allTcs[k].name \in {"file_write", "file_patch"} /\ allTcs[k].result.success)
                    => allTcs[k].result.staged
            /\ IF writes = <<>> THEN ReadyEvents = <<>>
               ELSE /\ Len(ReadyEvents) = 1
                    /\ [k \in DOMAIN ReadyEvents[1].diff_set |->
                           ReadyEvents[1].diff_set[k].path] = writes

-----------------------------------------------------------------------------
(* What DiffReviewer.review returns *)

RECURSIVE Pick(_, _, _)
\* the elements of q at the positions in S that are k or later, in order
Pick(q, S, k) ==
    IF k > Len(q) THEN <<>>
    ELSE (IF k \in S THEN <<q[k]>> ELSE <<>>) \o Pick(q, S, k + 1)

\* the two lists split the set: each diff is in one of them once, in set order
SplitsTheSet ==
    \E S \in SUBSET (1..Len(rv.diffs)) :
       /\ rv.accepted = Pick(rv.diffs, S, 1)
       /\ rv.rejected = Pick(rv.diffs, (1..Len(rv.diffs)) \ S, 1)

\* C40: DiffReviewer.review ends by returning two lists, accepted and
\* rejected, that together hold every diff of the set once, each in set order;
\* the diffs written to disk are those in accepted; an interrupted prompt
\* counts as skip; with auto_accept every diff is accepted.
C40_ReviewReturnsASplit ==
    rv.reviewer = "DiffReviewer" =>
        /\ Decide(Normalize("EOF")) = "skip"
        /\ ReviewStopped =>
              /\ rv.pc = "done"
              /\ SplitsTheSet
              /\ disk = ApplyAll(rv.before, rv.accepted)
              /\ rv.auto_accept => rv.accepted = rv.diffs

=============================================================================
